---- MODULE Spec2Model ----
(***************************************************************************)
(* A model of go-chi/render's content negotiation and streaming responder: *)
(* the responder registry (respondMapper), DefaultResponder, the encoders  *)
(* JSON, XML and PlainText, channelEventStream and channelIntoSlice, and   *)
(* the ContentTypeSet built from the Accept header.                        *)
(*                                                                         *)
(* One request is served per behaviour.  The handler goroutine runs        *)
(* DefaultResponder step by step; the producer goroutine (Send, Close),    *)
(* the request context (Cancel) and the application (SetResponder) are     *)
(* the environment and interleave with it.                                 *)
(*                                                                         *)
(* Further specifications take one part each: SpecReg an application that  *)
(* registers repeatedly, SpecRace goroutines inside the registry functions *)
(* statement by statement, SpecNew NewContentTypeSet on Accept headers,    *)
(* SpecSet the methods of one ContentTypeSet.                              *)
(***************************************************************************)
EXTENDS Integers, Sequences, FiniteSets, TLC

\* ------------------------------------------------------------------ bounds

\* Items the producer may yield on the channel.
MaxItems == 2
\* SetResponder calls the application may make.
MaxSets == 1
\* Comma-separated fields of the Accept header.
MaxAccept == 2
\* Goroutines using the registries at the same time.
MaxThreads == 2
\* Fields of a header handed to NewContentTypeSet on its own.
MaxFields == 3
\* Next calls made past the end of a ContentTypeSet.
MaxPast == 2
\* SetResponder calls of an application that only registers.
MaxRegs == 2
\* Fields of the struct renderer is called with.
MaxRenderFields == 4
\* Nesting of the values below the one renderer is called with.
MaxDepth == 2
\* Types an allowed set is built from.
MaxAllowed == 2
\* Status calls made on one request.
MaxStatus == 2

\* ----------------------------------------------------------- content types

ContentTypeNone == ""
ContentTypeDefault == "*/*"
ContentTypeJSON == "application/json"
ContentTypeEventStream == "text/event-stream"
ContentTypePlainText == "text/plain"
ContentTypeXML == "text/xml"
ContentTypeData == "application/octet-stream"
ContentTypeForm == "multipart/form-data"
ContentTypeHTML == "text/html"

\* The texts an Accept field takes in the model ("" is what strings.Split
\* yields for an empty header).
AcceptFields ==
  {ContentTypeJSON, ContentTypeXML, ContentTypeEventStream, ContentTypePlainText}

\* mime.ParseMediaType: the base media type of a field, or an error.
\* It trims the space around the type, drops the parameters and lowers
\* the case; no type, or nothing after the slash, is an error.
ParseMediaType(t) ==
  CASE t \in {"", "q=1", "text/"} -> [mediaType |-> "", err |-> TRUE]
    [] t = " application/json" -> [mediaType |-> ContentTypeJSON, err |-> FALSE]
    [] t \in {" text/html;q=0.9", "TEXT/HTML"} -> [mediaType |-> ContentTypeHTML, err |-> FALSE]
    [] OTHER -> [mediaType |-> t, err |-> FALSE]

\* A *ContentTypeSet; isnil is the nil pointer.
NilSet == [isnil |-> TRUE, set |-> <<>>, pos |-> -1]

InSeq(x, s) == \E i \in 1..Len(s) : s[i] = x

RECURSIVE addTypesNoDedup(_, _)
\* The allTypes loop without the scan for a type seen before.
addTypesNoDedup(types, acc) ==
  IF types = <<>> THEN acc
  ELSE LET p == ParseMediaType(Head(types)) IN
       IF p.err THEN addTypesNoDedup(Tail(types), acc)
       ELSE addTypesNoDedup(Tail(types), Append(acc, p.mediaType))

RECURSIVE addTypes(_, _)
\* The allTypes loop: skip what does not parse, skip what was seen before.
addTypes(types, acc) ==
  IF types = <<>> THEN acc
  ELSE LET p == ParseMediaType(Head(types)) IN
       IF p.err THEN addTypes(Tail(types), acc)
       ELSE IF InSeq(p.mediaType, acc) THEN addTypes(Tail(types), acc)
       ELSE addTypes(Tail(types), Append(acc, p.mediaType))

NewContentTypeSet(types) ==
  IF Len(types) = 0 THEN NilSet
  ELSE LET s == addTypes(types, <<>>) IN
       IF Len(s) = 0 THEN NilSet
       ELSE [isnil |-> FALSE, set |-> s, pos |-> -1]

\* Has looking at the current element only.
HasCurrent(set, contentType) == ~set.isnil /\ set.set[1] = contentType

\* (*ContentTypeSet).Has
Has(set, contentType) == ~set.isnil /\ InSeq(contentType, set.set)

\* Next that starts over after the last entry.
SetNextWrap(set) ==
  IF set.isnil THEN [set |-> set, ok |-> FALSE]
  ELSE LET q == IF set.pos + 1 > Len(set.set) THEN 0 ELSE set.pos + 1
       IN [set |-> [set EXCEPT !.pos = q], ok |-> q < Len(set.set)]

\* (*ContentTypeSet).Next: the set with the cursor advanced, and the result.
SetNext(set) ==
  IF set.isnil THEN [set |-> set, ok |-> FALSE]
  ELSE [set |-> [set EXCEPT !.pos = set.pos + 1],
        ok |-> set.pos + 1 < Len(set.set)]

\* Reset that puts the cursor on the first entry.
ResetToFirst(set) == IF set.isnil THEN set ELSE [set EXCEPT !.pos = 0]

\* (*ContentTypeSet).Reset
Reset(set) == IF set.isnil THEN set ELSE [set EXCEPT !.pos = -1]

\* The index p that Type reads, 0-based as in the code.
TypeIndex(set) ==
  IF set.pos >= Len(set.set) THEN Len(set.set) - 1
  ELSE IF set.pos <= 0 THEN 0 ELSE set.pos

\* Whether set.set[p] is an index out of range, a run-time panic.
TypeFaults(set) == ~set.isnil /\ TypeIndex(set) \notin 0..(Len(set.set) - 1)

\* Type that starts over after the last entry instead of staying on it.
TypeWrap(set) ==
  IF set.isnil THEN ContentTypeNone
  ELSE IF set.pos <= 0 THEN set.set[1]
  ELSE set.set[(set.pos % Len(set.set)) + 1]

\* Type without the cursor: always the first element.
TypeFirst(set) == IF set.isnil THEN ContentTypeNone ELSE set.set[1]

\* (*ContentTypeSet).Type; indices are 0-based in the code, 1-based here.
Type(set) ==
  IF set.isnil THEN ContentTypeNone
  ELSE LET p == IF set.pos >= Len(set.set) THEN Len(set.set) - 1
                ELSE IF set.pos <= 0 THEN 0 ELSE set.pos
       IN set.set[p + 1]

\* Types handing out the set's own backing array.
TypesAlias(hp) == [heap |-> hp, ref |-> 1]

\* (*ContentTypeSet).Types on the heap hp, where array 1 backs the set: the
\* result is a new array (2) holding a copy, also for a nil or empty set.
Types(hp) == [heap |-> [hp EXCEPT ![2] = hp[1]], ref |-> 2]

RECURSIVE Join(_)
\* strings.Join(strs, ","), as the sequence of its pieces.
Join(strs) ==
  IF Len(strs) <= 1 THEN strs
  ELSE << Head(strs), "," >> \o Join(Tail(strs))

\* (*ContentTypeSet).String
String(set) == IF set.isnil \/ Len(set.set) = 0 THEN <<>> ELSE Join(set.set)

RECURSIVE addOnce(_, _)
\* The allTypes loop of SetOfContentTypes: skip what was seen before.
addOnce(types, acc) ==
  IF types = <<>> THEN acc
  ELSE IF InSeq(Head(types), acc) THEN addOnce(Tail(types), acc)
  ELSE addOnce(Tail(types), Append(acc, Head(types)))

SetOfContentTypes(types) ==
  IF Len(types) = 0 THEN NilSet
  ELSE LET s == addOnce(types, <<>>) IN
       IF Len(s) = 0 THEN NilSet
       ELSE [isnil |-> FALSE, set |-> s, pos |-> -1]

\* strings.Split(header, ","): an empty header is one empty field.
Split(header) == IF header = <<>> THEN <<"">> ELSE header

NoOverride == "-"

\* GetAcceptedContentType that reads the Accept header first and the
\* override only when there is no header.
GetAcceptedContentTypeHeaderFirst(r) ==
  IF r.accept # <<>> \/ r.override = NoOverride THEN NewContentTypeSet(Split(r.accept))
  ELSE NewContentTypeSet(<<r.override>>)

\* GetAcceptedContentType
GetAcceptedContentType(r) ==
  IF r.override # NoOverride THEN NewContentTypeSet(<<r.override>>)
  ELSE NewContentTypeSet(Split(r.accept))

\* ------------------------------------------------------------------ values

\* A value handed to a responder: nil, a struct ("obj"), a string ("str"),
\* a value encoding/json and encoding/xml reject ("bad": it holds a func),
\* a channel ("chan"), or the []interface{} built by channelIntoSlice.
Val(tag) == [tag |-> tag, items |-> <<>>]
NilV == Val("nil")
ChanV == Val("chan")
SliceV(items) == [tag |-> "slice", items |-> items]
ItemV(tag, item) == [tag |-> tag, items |-> <<item>>]

\* What the handler may be given.
Values == {NilV, Val("obj"), Val("str"), Val("bad"), ChanV}

\* A channel item: "plain" is JSON-encodable, "bad" is not, "rerr" is a
\* Renderer whose Render fails; "err" is the error that then replaces it.
ItemKinds == {"plain", "bad", "rerr"}

\* renderer(w, r, rv) on a channel item: the error it returns ("" for nil).
renderer(item) == IF item.k = "rerr" THEN "render failed" ELSE ""

IsRenderer(item) == item.k = "rerr"

\* The "Build each channel item" block: a Renderer that fails is replaced
\* by its error.
Rendered(item) ==
  IF IsRenderer(item)
  THEN IF renderer(item) # "" THEN [item EXCEPT !.k = "err"] ELSE item
  ELSE item

\* Values whose xml.Marshal output holds the bytes '<?xml' itself: as its
\* first bytes, after a short prolog, across byte 100, or after byte 100.
XMLDeclTags == {"xmlDecl", "xmlEarly", "xmlEdge", "xmlLate"}

\* Whether json.Marshal / json.Encoder.Encode accepts the value.
JSONEncodable(v) ==
  CASE v.tag \in {"nil", "obj", "str"} \cup XMLDeclTags -> TRUE
    [] v.tag = "slice" -> \A i \in 1..Len(v.items) : v.items[i].k # "bad"
    [] v.tag = "item" -> v.items[1].k # "bad"
    [] OTHER -> FALSE

\* Whether xml.Marshal accepts the value.
XMLEncodable(v) ==
  CASE v.tag \in {"nil", "obj", "str"} \cup XMLDeclTags -> TRUE
    [] v.tag = "slice" -> \A i \in 1..Len(v.items) : v.items[i].k # "bad"
    [] OTHER -> FALSE

\* -------------------------------------------------------------------- sink

\* The http.ResponseWriter is the sequence of calls made on it.
SetHeader(name, value) ==
  [op |-> "Header", name |-> name, text |-> value, code |-> 0, val |-> NilV]
WriteHeader(code) ==
  [op |-> "WriteHeader", name |-> "", text |-> "", code |-> code, val |-> NilV]
\* Write of a body chunk: its kind, its text (a message, an event name) and
\* the value it encodes.
Write(kind, text, val) ==
  [op |-> "Write", name |-> kind, text |-> text, code |-> 0, val |-> val]
Flush == [op |-> "Flush", name |-> "", text |-> "", code |-> 0, val |-> NilV]

\* http.Error
httpError(w, msg, code) ==
  w \o << SetHeader("Content-Type", "text/plain; charset=utf-8"),
          SetHeader("X-Content-Type-Options", "nosniff"),
          WriteHeader(code),
          Write("error", msg, NilV) >>

setNosniff(w) == Append(w, SetHeader("X-Content-Type-Options", "nosniff"))

\* The bytes of b that XML searches for a header, and the length of '<?xml'.
FindHeaderUntil == 100
XMLDeclLen == 5

\* A writeStatusHint that sends the default status itself when there is no hint.
writeStatusHintDefault(w, r) == Append(w, WriteHeader(IF r.hint # 0 THEN r.hint ELSE 200))

\* if status, ok := r.Context().Value(StatusCtxKey).(int); ok { w.WriteHeader(status) }
\* hint 0 stands for no status in the context.
writeStatusHint(w, r) == IF r.hint # 0 THEN Append(w, WriteHeader(r.hint)) ELSE w

\* ---------------------------------------------------------------- encoders

ErrCanNotEncodeObject == "error can not encode object"

Ret(w, err) == [w |-> w, err |-> err, panic |-> FALSE]
Panic(w) == [w |-> w, err |-> "", panic |-> TRUE]

JSON(w, r, v) ==
  IF ~JSONEncodable(v) THEN Ret(w, "JSON encode")
  ELSE Ret(Append(writeStatusHint(
             Append(setNosniff(w),
                    SetHeader("Content-Type", "application/json; charset=utf-8")), r),
           Write("json", "", v)), "")

\* b, err := xml.Marshal(v): the length of b and the offsets in b at which
\* the bytes '<?xml' start.
xmlMarshal(v) ==
  CASE v.tag = "xmlDecl" -> [len |-> 60, at |-> {0}]
    [] v.tag = "xmlEarly" -> [len |-> 120, at |-> {40}]
    [] v.tag = "xmlEdge" -> [len |-> 120, at |-> {FindHeaderUntil - XMLDeclLen + 1}]
    [] v.tag = "xmlLate" -> [len |-> 200, at |-> {150}]
    [] OTHER -> [len |-> 30, at |-> {}]

\* bytes.Contains(b[:findHeaderUntil], []byte("<?xml"))
xmlHeaderFound(b) ==
  LET findHeaderUntil == IF b.len > FindHeaderUntil THEN FindHeaderUntil ELSE b.len
  IN \E d \in b.at : d + XMLDeclLen <= findHeaderUntil

\* XML that prints the generic header whatever the body holds.
XMLAlwaysHeader(w, r, v) ==
  IF ~XMLEncodable(v) THEN Ret(w, "XML marshal")
  ELSE Ret(writeStatusHint(
             Append(setNosniff(w),
                    SetHeader("Content-Type", "application/xml; charset=utf-8")), r)
           \o << Write("xmlheader", "", NilV), Write("xml", "", v) >>, "")

XML(w, r, v) ==
  IF ~XMLEncodable(v) THEN Ret(w, "XML marshal")
  ELSE LET h == writeStatusHint(
                  Append(setNosniff(w),
                         SetHeader("Content-Type", "application/xml; charset=utf-8")), r)
       IN Ret((IF xmlHeaderFound(xmlMarshal(v))
               THEN h ELSE Append(h, Write("xmlheader", "", NilV)))
              \o << Write("xml", "", v) >>, "")

PlainText(w, r, v) ==
  IF v.tag # "str" THEN Ret(w, ErrCanNotEncodeObject)
  ELSE Ret(Append(writeStatusHint(
             Append(setNosniff(w),
                    SetHeader("Content-Type", "text/plain; charset=utf-8")), r),
           Write("plain", "", v)), "")

HTML(w, r, v) ==
  IF v.tag # "str" THEN Ret(w, ErrCanNotEncodeObject)
  ELSE Ret(Append(writeStatusHint(
             Append(setNosniff(w),
                    SetHeader("Content-Type", "text/html; charset=utf-8")), r),
           Write("html", "", v)), "")

\* streamHead that sets Connection whatever the protocol.
streamHeadKeepAlive(w, r) ==
  w \o << SetHeader("Content-Type", "text/event-stream; charset=utf-8"),
          SetHeader("Cache-Control", "no-cache"),
          SetHeader("Connection", "keep-alive"),
          WriteHeader(200) >>

\* The head of channelEventStream, up to the select loop.
streamHead(w, r) ==
  LET h == w \o << SetHeader("Content-Type", "text/event-stream; charset=utf-8"),
                   SetHeader("Cache-Control", "no-cache") >>
  IN Append(IF r.proto = 1 THEN Append(h, SetHeader("Connection", "keep-alive")) ELSE h,
            WriteHeader(200))

\* fn(w, r, v) for a value that is not a channel, or for a function other
\* than channelEventStream: calling nil panics, channelEventStream panics on
\* anything but a channel.
Call(fn, w, r, v) ==
  CASE fn = "JSON" -> JSON(w, r, v)
    [] fn = "XML" -> XML(w, r, v)
    [] fn = "PlainText" -> PlainText(w, r, v)
    [] fn = "HTML" -> HTML(w, r, v)
    [] OTHER -> Panic(w)

\* ------------------------------------------------------------------- state

VARIABLES
  respondMapper,     \* the registry: content type -> RespondFunc
  respondMapperLck,  \* the sync.RWMutex guarding it
  nSet,              \* SetResponder calls made so far
  pc,                \* where the handler goroutine is
  r,                 \* the request
  v,                 \* DefaultResponder's v
  acceptedTypes,     \* DefaultResponder's acceptedTypes
  w,                 \* the response sink: the calls made on it
  ctxDone,           \* whether r.Context().Done() is closed
  produced,          \* the items the producer has sent on the channel
  closed,            \* whether the producer has closed the channel
  nrecv,             \* how many of them the handler has received
  to,                \* channelIntoSlice's buffer
  mode,              \* which adapter ran: "stream", "buffer" or ""
  invoked,           \* the responder invocations DefaultResponder made
  cancelAt,          \* nrecv when the context was cancelled, -1 before
  timedOut,          \* whether a select chose the ctx.Done() case
  supported,         \* the result of a SupportedResponders call
  arg,               \* the value DefaultResponder was called with
  unset,             \* the types whose latest SetResponder call passed nil
  setLog,            \* the SetResponder calls made, in order
  decodeMapper,      \* the decoder registry: content type -> DecodeFunc
  decodeMapperLck,   \* the sync.RWMutex guarding it
  th,                \* the goroutines using the registries concurrently
  fields,            \* the strings a ContentTypeSet was built from
  ctsNil,            \* whether the *ContentTypeSet under test is nil
  ctsPos,            \* its pos
  heap,              \* backing arrays: 1 is its set, 2 the latest Types() result
  typesRef,          \* the array the slice returned by Types() points to, 0 if none
  made,              \* its entries when it was built
  origin,            \* how it was built
  nNext,             \* Next calls since it was built or Reset
  wasReset,          \* whether Reset was called on it
  out,               \* the latest method call on it and its result
  statusLog,         \* the hints Status has put into the request context, in order
  enc,               \* the encoder call made directly, and the error it returned
  nSetDec,           \* SetDecoder calls made so far
  decoded,           \* the DefaultDecoder call made, and its outcome
  supportedDec,      \* the result of a SupportedDecoders call
  rendered,          \* the renderer(w, r, v) call made: v and the Render calls in order
  more,              \* parity of the items received beyond the MaxItems recorded ones
  mw                 \* the request the AllowedContentTypes handler served, and its calls of next

vars == << respondMapper, respondMapperLck, nSet, pc, r, v, acceptedTypes, w,
           ctxDone, produced, closed, nrecv, to, mode, invoked, cancelAt,
           timedOut, supported, arg, unset, setLog, decodeMapper,
           decodeMapperLck, th, fields, ctsNil, ctsPos, heap, typesRef, made,
           origin, nNext, wasReset, out, statusLog, enc, nSetDec, decoded,
           supportedDec, rendered, more, mw >>

reqVars == << r, v, acceptedTypes, arg >>
chanVars == << ctxDone, produced, closed, nrecv, cancelAt >>
regVars == << respondMapper, respondMapperLck, nSet, unset, setLog >>
decVars == << decodeMapper, decodeMapperLck >>
setVars == << fields, ctsNil, ctsPos, heap, typesRef, made, origin, nNext, wasReset, out >>
callVars == << pc, reqVars, w, chanVars, to, mode, invoked, timedOut, supported >>
encVars == << statusLog, enc >>
dcdVars == << nSetDec, decoded, supportedDec >>
auxVars == << encVars, dcdVars, rendered, more, mw >>
hdlVars == << pc, v, acceptedTypes, arg, chanVars, to, mode, invoked, timedOut, supported >>
extVars == << decVars, th, setVars, auxVars >>

\* The Accept headers, already split at commas.
RECURSIVE SeqsUpTo(_, _)
SeqsUpTo(S, n) ==
  IF n = 0 THEN {<<>>}
  ELSE LET shorter == SeqsUpTo(S, n - 1) IN
       shorter \cup {Append(s, x) : s \in {q \in shorter : Len(q) = n - 1}, x \in S}

AcceptHeaders == SeqsUpTo(AcceptFields, MaxAccept)

\* ContentTypeCtxKey as set by the SetContentType middleware, or absent.
Overrides == {NoOverride, ContentTypeEventStream}

\* Status hints: 0 is none.
Hints == {0, 201}

\* With an override in the context the Accept header is not read.
Requests ==
  { q \in [accept : AcceptHeaders, override : Overrides, hint : Hints, proto : {1, 2}] :
      q.override # NoOverride => Len(q.accept) <= 1 }

\* r.ProtoMajor is read by channelEventStream alone.
PlainRequests == { q \in Requests : q.proto = 1 }

\* The Accept headers of the requests answered with a channel.
ChanAccepts ==
  { <<>>,
    <<ContentTypeEventStream>>,
    <<ContentTypeJSON, ContentTypeEventStream>>,
    <<ContentTypePlainText, ContentTypeJSON>> }

ChanRequests == { q \in Requests : q.accept \in ChanAccepts /\ q.override = NoOverride }

NoRequest == [accept |-> <<>>, override |-> NoOverride, hint |-> 0, proto |-> 1]

\* var respondMapper = map[ContentType]RespondFunc{...}
InitRespondMapper ==
  [t \in {ContentTypeDefault, ContentTypeJSON, ContentTypeXML, ContentTypeEventStream} |->
     CASE t = ContentTypeXML -> "XML"
       [] t = ContentTypeEventStream -> "channelEventStream"
       [] OTHER -> "JSON"]

\* var decodeMapper = map[ContentType]DecodeFunc{...}
InitDecodeMapper ==
  [t \in {ContentTypeJSON, ContentTypeXML} |->
     IF t = ContentTypeJSON THEN "DecodeJSON" ELSE "DecodeXML"]

Threads == 1..MaxThreads
\* A goroutine that is in none of the registry functions.
Idle == [op |-> "", pc |-> "idle", holds |-> ""]

\* No encoder has been called.
NoEnc == [fn |-> "", v |-> NilV, err |-> "", done |-> FALSE]

\* The AllowedContentTypes handler has served no request.
NoServed == [done |-> FALSE, contentTypes |-> NilSet, header |-> "", next |-> 0]

\* renderer has not been called.
NoRendered == [done |-> FALSE, v |-> NilV, calls |-> << >>]

\* DefaultDecoder has not been called. reg is the registry the call saw.
NoDecode == [done |-> FALSE, ctype |-> "", override |-> NoOverride, body |-> "",
             ct |-> "", by |-> "", err |-> "", reg |-> << >>]

\* No method of the ContentTypeSet under test was called yet.
NoOut == [op |-> "", arg |-> "", ok |-> FALSE, type |-> "", str |-> <<>>, fault |-> FALSE]

Init ==
  /\ respondMapper = InitRespondMapper
  /\ respondMapperLck = [readers |-> 0, writer |-> FALSE]
  /\ nSet = 0
  /\ pc = "idle"
  /\ r = NoRequest
  /\ v = NilV
  /\ acceptedTypes = NilSet
  /\ w = <<>>
  /\ ctxDone = FALSE
  /\ produced = <<>>
  /\ closed = FALSE
  /\ nrecv = 0
  /\ to = <<>>
  /\ mode = ""
  /\ invoked = <<>>
  /\ cancelAt = -1
  /\ timedOut = FALSE
  /\ supported = NilSet
  /\ arg = NilV
  /\ unset = {}
  /\ setLog = <<>>
  /\ decodeMapper = InitDecodeMapper
  /\ decodeMapperLck = [readers |-> 0, writer |-> FALSE]
  /\ th = [t \in Threads |-> Idle]
  /\ fields = <<>>
  /\ ctsNil = TRUE
  /\ ctsPos = -1
  /\ heap = << <<>>, <<>> >>
  /\ typesRef = 0
  /\ made = <<>>
  /\ origin = "none"
  /\ nNext = 0
  /\ wasReset = FALSE
  /\ out = NoOut
  /\ statusLog = <<>>
  /\ enc = NoEnc
  /\ nSetDec = 0
  /\ decoded = NoDecode
  /\ supportedDec = NilSet
  /\ rendered = NoRendered
  /\ more = FALSE
  /\ mw = NoServed

\* -------------------------------------------------------------- registry

\* The content types SetResponder is called with.
SetTypes ==
  {ContentTypeDefault, ContentTypeJSON, ContentTypeEventStream, ContentTypePlainText}

\* The functions SetResponder is called with; "nil" is the nil RespondFunc
\* (channelEventStream is not exported, so no caller can pass it).
SetFuncs == {"JSON", "PlainText", "nil"}

\* An assignment that leaves an existing entry as it is.
MapSetKeepFirst(m, contentType, responder) ==
  [t \in DOMAIN m \cup {contentType} |-> IF t \in DOMAIN m THEN m[t] ELSE responder]

\* respondMapper[contentType] = responder
MapSet(m, contentType, responder) ==
  [t \in DOMAIN m \cup {contentType} |-> IF t = contentType THEN responder ELSE m[t]]

LockFree == respondMapperLck.readers = 0 /\ ~respondMapperLck.writer

\* The assignment SetResponder makes under the lock.
Assigned(contentType, responder) ==
  /\ respondMapper' = MapSet(respondMapper, contentType, responder)
  /\ nSet' = nSet + 1
  /\ setLog' = Append(setLog, [ct |-> contentType, fn |-> responder])
  /\ unset' = IF responder = "nil" THEN unset \cup {contentType}
              ELSE unset \ {contentType}
  /\ UNCHANGED << extVars, respondMapperLck, pc, reqVars, w, chanVars, to, mode, invoked,
                  timedOut, supported >>

\* SetResponder: Lock, assign, Unlock.
SetResponder(contentType, responder) ==
  /\ pc \notin {"done", "panic"}
  /\ nSet < MaxSets
  /\ LockFree
  /\ Assigned(contentType, responder)

\* SetResponder in an application that makes up to MaxRegs registrations.
Register(contentType, responder) ==
  /\ pc \notin {"done", "panic"}
  /\ nSet < MaxRegs
  /\ LockFree
  /\ Assigned(contentType, responder)

\* The order sort.Strings puts the content types in.
LexRank(t) ==
  CASE t = ContentTypeDefault -> 1
    [] t = ContentTypeJSON -> 2
    [] t = ContentTypeData -> 3
    [] t = ContentTypeForm -> 4
    [] t = ContentTypeEventStream -> 5
    [] t = ContentTypeHTML -> 6
    [] t = ContentTypePlainText -> 7
    [] t = ContentTypeXML -> 8
    [] OTHER -> 0

RECURSIVE SortStrings(_)
SortStrings(S) ==
  IF S = {} THEN <<>>
  ELSE LET m == CHOOSE x \in S : \A y \in S : LexRank(x) <= LexRank(y)
       IN <<m>> \o SortStrings(S \ {m})

\* SupportedResponders: the keys of the map, sorted, as a ContentTypeSet.
SupportedRespondersOf(m) == NewContentTypeSet(SortStrings(DOMAIN m))

SupportedResponders ==
  /\ pc = "idle"
  /\ ~respondMapperLck.writer
  /\ supported' = SupportedRespondersOf(respondMapper)
  /\ pc' = "done"
  /\ UNCHANGED << extVars, regVars, reqVars, w, chanVars, to, mode, invoked, timedOut >>

\* ------------------------------------------------------- DefaultResponder

\* A responder call DefaultResponder made: from where ("delegate", "walk",
\* "default"), for which type, which function, what it returned and how many
\* calls it made on the sink.
Invocation(via, ct, fn, before, res) ==
  [via |-> via, ct |-> ct, fn |-> fn, err |-> res.err, panic |-> res.panic,
   wrote |-> Len(res.w) - Len(before)]

\* IsDecline that never recognises the sentinel.
IsDeclineNever(err) == FALSE

\* IsDecline that takes every error for the sentinel.
IsDeclineAnyError(err) == err # ""

\* errors.Is(err, ErrCanNotEncodeObject)
IsDecline(err) == err = ErrCanNotEncodeObject

\* if err = fn(w, r, v); err != nil { http.Error(w, err.Error(), 500) }
withError500(res) == IF res.err # "" THEN httpError(res.w, res.err, 500) ELSE res.w

\* The call: acceptedTypes := GetAcceptedContentType(r), then the switch on
\* the kind of v.
Begin(req, val) ==
  /\ pc = "idle"
  /\ r' = req
  /\ v' = val
  /\ arg' = val
  /\ acceptedTypes' = GetAcceptedContentType(req)
  /\ pc' = IF val.tag = "chan"
           THEN IF Has(GetAcceptedContentType(req), ContentTypeEventStream)
                THEN "delegate" ELSE "buffer"
           ELSE "rlock"
  /\ mode' = IF pc' = "buffer" THEN "buffer" ELSE mode
  /\ UNCHANGED << extVars, regVars, w, chanVars, to, invoked, timedOut, supported >>

\* The event-stream branch: RLock, look the event-stream responder up,
\* RUnlock and call it; a missing entry takes the Unlock of the read-locked
\* mutex, which is fatal.  channelEventStream runs up to its select loop.
Delegate ==
  /\ pc = "delegate"
  /\ ~respondMapperLck.writer
  /\ IF ContentTypeEventStream \in DOMAIN respondMapper
     THEN LET fn == respondMapper[ContentTypeEventStream] IN
          IF fn = "channelEventStream"
          THEN /\ w' = streamHead(w, r)
               /\ pc' = "stream"
               /\ mode' = "stream"
               /\ invoked' = Append(invoked,
                      Invocation("delegate", ContentTypeEventStream, fn, w, Ret(w, "")))
          ELSE LET res == Call(fn, w, r, v) IN
               /\ w' = withError500(res)
               /\ pc' = IF res.panic THEN "panic" ELSE "done"
               /\ mode' = mode
               /\ invoked' = Append(invoked,
                      Invocation("delegate", ContentTypeEventStream, fn, w, res))
     ELSE /\ pc' = "panic"
          /\ UNCHANGED << w, mode, invoked >>
  /\ UNCHANGED << extVars, regVars, reqVars, chanVars, to, timedOut, supported >>

\* ---------------------------------------------------- channelEventStream

ItemReady == nrecv < Len(produced)
ChanClosedAndDrained == closed /\ nrecv = Len(produced)
NextItem == produced[nrecv + 1]

TimeoutFrame == Write("event", "error", Val("Server Timeout"))
EOFFrame == Write("event", "EOF", NilV)

\* ItemFrame with the test of json.Marshal's error inverted.
ItemFrameInverted(item) ==
  IF JSONEncodable(ItemV("item", Rendered(item)))
  THEN Write("event", "error", ItemV("item", Rendered(item)))
  ELSE Write("event", "data", ItemV("item", Rendered(item)))

\* The frame written for a received item, after the Renderer block.
ItemFrame(item) ==
  IF JSONEncodable(ItemV("item", Rendered(item)))
  THEN Write("event", "data", ItemV("item", Rendered(item)))
  ELSE Write("event", "error", ItemV("item", Rendered(item)))

\* The select that never takes the ctx.Done() case.
NeverSelectDone == FALSE

\* Whether the select may take case 0 (<-ctx.Done()) and case 1 (<-v); with
\* both ready reflect.Select picks either.
CanSelectDone == ctxDone
CanSelectRecv == ItemReady
CanSelectClosed == ChanClosedAndDrained

\* StreamTimeout without its return: the loop goes on after the frame.
StreamTimeoutNoReturn ==
  /\ pc = "stream"
  /\ CanSelectDone
  /\ w' = Append(w, TimeoutFrame)
  /\ timedOut' = TRUE
  /\ UNCHANGED << extVars, regVars, reqVars, pc, chanVars, to, mode, invoked, supported >>

\* case 0 of the select in channelEventStream
StreamTimeout ==
  /\ pc = "stream"
  /\ CanSelectDone
  /\ w' = Append(w, TimeoutFrame)
  /\ timedOut' = TRUE
  /\ pc' = "done"
  /\ UNCHANGED << extVars, regVars, reqVars, chanVars, to, mode, invoked, supported >>

\* StreamRecv that returns after the frame of an item json.Marshal rejects.
StreamRecvFatal ==
  /\ pc = "stream"
  /\ CanSelectRecv
  /\ nrecv' = nrecv + 1
  /\ w' = w \o << ItemFrame(NextItem), Flush >>
  /\ pc' = IF ItemFrame(NextItem).text = "error" THEN "done" ELSE pc
  /\ UNCHANGED << extVars, regVars, reqVars, ctxDone, produced, closed, cancelAt, to,
                  mode, invoked, timedOut, supported >>

\* default of the select, ok: an item is received, built and written.
StreamRecv ==
  /\ pc = "stream"
  /\ CanSelectRecv
  /\ nrecv' = nrecv + 1
  /\ w' = w \o << ItemFrame(NextItem), Flush >>
  /\ UNCHANGED << extVars, regVars, reqVars, pc, ctxDone, produced, closed, cancelAt, to,
                  mode, invoked, timedOut, supported >>

\* default of the select, !ok: the channel is closed.
StreamEOF ==
  /\ pc = "stream"
  /\ CanSelectClosed
  /\ w' = Append(w, EOFFrame)
  /\ pc' = "done"
  /\ UNCHANGED << extVars, regVars, reqVars, chanVars, to, mode, invoked, timedOut, supported >>

\* ------------------------------------------------------ channelIntoSlice

\* case 0: http.Error(w, "Server Timeout", 504); return nil.  The caller
\* assigns the result to v and goes on.
BufferTimeout ==
  /\ pc = "buffer"
  /\ CanSelectDone
  /\ w' = httpError(w, "Server Timeout", 504)
  /\ timedOut' = TRUE
  /\ v' = NilV
  /\ pc' = "rlock"
  /\ UNCHANGED << extVars, regVars, r, acceptedTypes, arg, chanVars, to, mode, invoked, supported >>

\* BufferRecv that drops an item whose Render failed.
BufferRecvDropFailed ==
  /\ pc = "buffer"
  /\ CanSelectRecv
  /\ nrecv' = nrecv + 1
  /\ to' = IF IsRenderer(NextItem) /\ renderer(NextItem) # ""
           THEN to ELSE Append(to, Rendered(NextItem))
  /\ UNCHANGED << extVars, regVars, reqVars, pc, w, ctxDone, produced, closed, cancelAt,
                  mode, invoked, timedOut, supported >>

\* default, ok: to = append(to, v)
BufferRecv ==
  /\ pc = "buffer"
  /\ CanSelectRecv
  /\ nrecv' = nrecv + 1
  /\ to' = Append(to, Rendered(NextItem))
  /\ UNCHANGED << extVars, regVars, reqVars, pc, w, ctxDone, produced, closed, cancelAt,
                  mode, invoked, timedOut, supported >>

\* default, !ok: return to
BufferClosed ==
  /\ pc = "buffer"
  /\ CanSelectClosed
  /\ v' = SliceV(to)
  /\ pc' = "rlock"
  /\ UNCHANGED << extVars, regVars, r, acceptedTypes, arg, w, chanVars, to, mode, invoked,
                  timedOut, supported >>

\* ------------------------------------------------------------ negotiation

\* respondMapperLck.RLock(); defer respondMapperLck.RUnlock()
RLock ==
  /\ pc = "rlock"
  /\ ~respondMapperLck.writer
  /\ respondMapperLck' = [respondMapperLck EXCEPT !.readers = @ + 1]
  /\ pc' = "walk"
  /\ UNCHANGED << extVars, respondMapper, nSet, unset, setLog, reqVars, w, chanVars, to, mode, invoked,
                  timedOut, supported >>

\* An RUnlock that leaves the mutex as it is.
RUnlockedNot == respondMapperLck

\* respondMapperLck.RUnlock()
RUnlocked == [respondMapperLck EXCEPT !.readers = @ - 1]

\* One turn of the loop that ends in continue without a call: the type is
\* the event-stream type, or has no entry in the map.
WalkSkip ==
  /\ pc = "walk"
  /\ SetNext(acceptedTypes).ok
  /\ LET t == Type(SetNext(acceptedTypes).set) IN
       t = ContentTypeEventStream \/ t \notin DOMAIN respondMapper
  /\ acceptedTypes' = SetNext(acceptedTypes).set
  /\ UNCHANGED << extVars, regVars, r, v, arg, pc, w, chanVars, to, mode, invoked, timedOut,
                  supported >>

\* WalkRespond without the test for the event-stream type.
WalkRespondNoSkip ==
  /\ pc = "walk"
  /\ SetNext(acceptedTypes).ok
  /\ LET t == Type(SetNext(acceptedTypes).set) IN
       /\ t \in DOMAIN respondMapper
       /\ LET res == Call(respondMapper[t], w, r, v) IN
            /\ invoked' = Append(invoked, Invocation("walk", t, respondMapper[t], w, res))
            /\ IF res.panic
               THEN /\ pc' = "panic"
                    /\ w' = res.w
                    /\ respondMapperLck' = RUnlocked
               ELSE IF IsDecline(res.err)
               THEN /\ pc' = pc
                    /\ w' = res.w
                    /\ respondMapperLck' = respondMapperLck
               ELSE /\ pc' = "done"
                    /\ w' = withError500(res)
                    /\ respondMapperLck' = RUnlocked
  /\ acceptedTypes' = SetNext(acceptedTypes).set
  /\ UNCHANGED << extVars, respondMapper, nSet, unset, setLog, r, v, arg, chanVars, to, mode, timedOut,
                  supported >>

\* One turn of the loop that calls the responder of the current type: on
\* ErrCanNotEncodeObject the loop continues, otherwise the call returns
\* (after http.Error for any other error).
WalkRespond ==
  /\ pc = "walk"
  /\ SetNext(acceptedTypes).ok
  /\ LET t == Type(SetNext(acceptedTypes).set) IN
       /\ t # ContentTypeEventStream
       /\ t \in DOMAIN respondMapper
       /\ LET res == Call(respondMapper[t], w, r, v) IN
            /\ invoked' = Append(invoked, Invocation("walk", t, respondMapper[t], w, res))
            /\ IF res.panic
               THEN /\ pc' = "panic"
                    /\ w' = res.w
                    /\ respondMapperLck' = RUnlocked
               ELSE IF IsDecline(res.err)
               THEN /\ pc' = pc
                    /\ w' = res.w
                    /\ respondMapperLck' = respondMapperLck
               ELSE /\ pc' = "done"
                    /\ w' = withError500(res)
                    /\ respondMapperLck' = RUnlocked
  /\ acceptedTypes' = SetNext(acceptedTypes).set
  /\ UNCHANGED << extVars, respondMapper, nSet, unset, setLog, r, v, arg, chanVars, to, mode, timedOut,
                  supported >>

\* DefaultFn reading the JSON entry instead of the default entry.
DefaultFnJSON ==
  IF ContentTypeJSON \in DOMAIN respondMapper
  THEN respondMapper[ContentTypeJSON] ELSE "nil"

\* respondMapper[ContentTypeDefault]: a missing key reads as nil.
DefaultFn ==
  IF ContentTypeDefault \in DOMAIN respondMapper
  THEN respondMapper[ContentTypeDefault] ELSE "nil"

\* The loop is over: respondMapper[ContentTypeDefault](w, r, v).
WalkDefault ==
  /\ pc = "walk"
  /\ ~SetNext(acceptedTypes).ok
  /\ LET res == Call(DefaultFn, w, r, v) IN
       /\ invoked' = Append(invoked,
                      Invocation("default", ContentTypeDefault, DefaultFn, w, res))
       /\ pc' = IF res.panic THEN "panic" ELSE "done"
       /\ w' = withError500(res)
  /\ acceptedTypes' = SetNext(acceptedTypes).set
  /\ respondMapperLck' = RUnlocked
  /\ UNCHANGED << extVars, respondMapper, nSet, unset, setLog, r, v, arg, chanVars, to, mode, timedOut,
                  supported >>

\* ------------------------------------------------------------ environment

InCall == pc \in {"stream", "buffer"}

\* The producer sends an item on the (unbuffered) channel: it offers one
\* item at a time and goes on once the handler has received it.
Send(k) ==
  /\ InCall
  /\ ~closed
  /\ nrecv = Len(produced)
  /\ Len(produced) < MaxItems
  /\ produced' = Append(produced, [id |-> Len(produced) + 1, k |-> k])
  /\ UNCHANGED << extVars, regVars, reqVars, pc, w, ctxDone, closed, nrecv, cancelAt, to,
                  mode, invoked, timedOut, supported >>

\* The producer closes the channel, after its last send has returned.
Close ==
  /\ InCall
  /\ ~closed
  /\ nrecv = Len(produced)
  /\ closed' = TRUE
  /\ UNCHANGED << extVars, regVars, reqVars, pc, w, ctxDone, produced, nrecv, cancelAt, to,
                  mode, invoked, timedOut, supported >>

\* The request context is cancelled.
Cancel ==
  /\ InCall
  /\ ~ctxDone
  /\ ctxDone' = TRUE
  /\ cancelAt' = nrecv
  /\ UNCHANGED << extVars, regVars, reqVars, pc, w, produced, closed, nrecv, to, mode,
                  invoked, timedOut, supported >>

\* Requests answered with a value that is not a channel.
Next ==
  \/ \E ct \in SetTypes, fn \in SetFuncs : SetResponder(ct, fn)
  \/ SupportedResponders
  \/ \E req \in PlainRequests, val \in Values \ {ChanV} : Begin(req, val)
  \/ RLock
  \/ WalkSkip
  \/ WalkRespond
  \/ WalkDefault

Spec == Init /\ [][Next]_vars

\* Requests answered with a channel; the application may replace the
\* event-stream responder.
NextChan ==
  \/ \E fn \in SetFuncs : SetResponder(ContentTypeEventStream, fn)
  \/ \E req \in ChanRequests : Begin(req, ChanV)
  \/ Delegate
  \/ StreamTimeout
  \/ StreamRecv
  \/ StreamEOF
  \/ BufferTimeout
  \/ BufferRecv
  \/ BufferClosed
  \/ RLock
  \/ WalkSkip
  \/ WalkRespond
  \/ WalkDefault
  \/ \E k \in ItemKinds : Send(k)
  \/ Close
  \/ Cancel

SpecChan == Init /\ [][NextChan]_vars

\* ------------------------------------------------------------- properties

\* The requests served while the application registers: Accept text/plain
\* or application/json.
RegRequests ==
  { [NoRequest EXCEPT !.accept = a] : a \in { <<ContentTypePlainText>>, <<ContentTypeJSON>> } }

NextReg ==
  \/ \E t \in SetTypes, fn \in SetFuncs : Register(t, fn)
  \/ SupportedResponders
  \/ \E req \in RegRequests : Begin(req, Val("str"))
  \/ RLock
  \/ WalkSkip
  \/ WalkRespond
  \/ WalkDefault

SpecReg == Init /\ [][NextReg]_vars

\* ------------------------------------------ goroutines on the registries

\* The registry functions a goroutine may be in; each works on the
\* responder registry or on the decoder registry.
ThreadOps ==
  { "SetResponder", "SupportedResponders", "DefaultResponder",
    "SetDecoder", "SupportedDecoders", "DefaultDecoder" }

RegOf(op) ==
  IF op \in {"SetResponder", "SupportedResponders", "DefaultResponder"}
  THEN "respond" ELSE "decode"

\* The first statement of each function: Set* takes the write lock,
\* Supported* reads len(map) for make(), Default* takes the read lock.
FirstStep(op) ==
  CASE op \in {"SetResponder", "SetDecoder"} -> "lock"
    [] op \in {"SupportedResponders", "SupportedDecoders"} -> "len"
    [] OTHER -> "rlock"

LckOf(reg) == IF reg = "respond" THEN respondMapperLck ELSE decodeMapperLck

\* The mutex of registry reg becomes l.
LckBecomes(reg, l) ==
  IF reg = "respond"
  THEN respondMapperLck' = l /\ UNCHANGED decodeMapperLck
  ELSE decodeMapperLck' = l /\ UNCHANGED respondMapperLck

\* What the registering goroutines store.
ThreadEntry(reg) ==
  IF reg = "respond" THEN [ct |-> ContentTypePlainText, fn |-> "PlainText"]
  ELSE [ct |-> ContentTypeForm, fn |-> "DecodeJSON"]

seqVars == << nSet, unset, setLog, callVars, setVars, auxVars >>

\* Goroutine t calls op.
Enter(t, op) ==
  /\ th[t].pc = "idle"
  /\ th' = [th EXCEPT ![t] = [op |-> op, pc |-> FirstStep(op), holds |-> ""]]
  /\ UNCHANGED << respondMapper, respondMapperLck, decVars, seqVars >>

\* strs := make([]string, 0, len(map)): the length is read before RLock.
ThLen(t) ==
  /\ th[t].pc = "len"
  /\ th' = [th EXCEPT ![t].pc = "rlock"]
  /\ UNCHANGED << respondMapper, respondMapperLck, decVars, seqVars >>

\* Lock(): waits until there is neither a reader nor a writer.
ThLock(t) ==
  /\ th[t].pc = "lock"
  /\ LckOf(RegOf(th[t].op)).readers = 0
  /\ ~LckOf(RegOf(th[t].op)).writer
  /\ LckBecomes(RegOf(th[t].op), [readers |-> 0, writer |-> TRUE])
  /\ th' = [th EXCEPT ![t].pc = "assign", ![t].holds = "w"]
  /\ UNCHANGED << respondMapper, decodeMapper, seqVars >>

\* map[contentType] = f
ThAssign(t) ==
  /\ th[t].pc = "assign"
  /\ LET e == ThreadEntry(RegOf(th[t].op)) IN
       IF RegOf(th[t].op) = "respond"
       THEN /\ respondMapper' = MapSet(respondMapper, e.ct, e.fn)
            /\ UNCHANGED decodeMapper
       ELSE /\ decodeMapper' = MapSet(decodeMapper, e.ct, e.fn)
            /\ UNCHANGED respondMapper
  /\ th' = [th EXCEPT ![t].pc = "unlock"]
  /\ UNCHANGED << respondMapperLck, decodeMapperLck, seqVars >>

\* The deferred Unlock().
ThUnlock(t) ==
  /\ th[t].pc = "unlock"
  /\ LckBecomes(RegOf(th[t].op), [readers |-> 0, writer |-> FALSE])
  /\ th' = [th EXCEPT ![t] = Idle]
  /\ UNCHANGED << respondMapper, decodeMapper, seqVars >>

\* RLock(): waits while a writer holds the mutex.
ThRLock(t) ==
  /\ th[t].pc = "rlock"
  /\ ~LckOf(RegOf(th[t].op)).writer
  /\ LckBecomes(RegOf(th[t].op),
                [LckOf(RegOf(th[t].op)) EXCEPT !.readers = @ + 1])
  /\ th' = [th EXCEPT ![t].pc = "read", ![t].holds = "r"]
  /\ UNCHANGED << respondMapper, decodeMapper, seqVars >>

\* The range over the map (Supported*) or the lookups (Default*).
ThRead(t) ==
  /\ th[t].pc = "read"
  /\ th' = [th EXCEPT ![t].pc = "runlock"]
  /\ UNCHANGED << respondMapper, respondMapperLck, decVars, seqVars >>

\* RUnlock(), deferred or not.
ThRUnlock(t) ==
  /\ th[t].pc = "runlock"
  /\ LckBecomes(RegOf(th[t].op),
                [LckOf(RegOf(th[t].op)) EXCEPT !.readers = @ - 1])
  /\ th' = [th EXCEPT ![t] = Idle]
  /\ UNCHANGED << respondMapper, decodeMapper, seqVars >>

NextRace ==
  \E t \in Threads :
    \/ \E op \in ThreadOps : Enter(t, op)
    \/ ThLen(t)
    \/ ThLock(t)
    \/ ThAssign(t)
    \/ ThUnlock(t)
    \/ ThRLock(t)
    \/ ThRead(t)
    \/ ThRUnlock(t)

SpecRace == Init /\ [][NextRace]_vars

\* ------------------------------------------- NewContentTypeSet on a header

\* The comma-separated fields of the Accept headers NewContentTypeSet is
\* tried on: padded, with a parameter, in upper case, empty, cut short.
HeaderFields ==
  { ContentTypeJSON, " application/json", " text/html;q=0.9", "TEXT/HTML", "", "text/" }

Headers == SeqsUpTo(HeaderFields, MaxFields)

\* GetAcceptedContentType on a request with Accept header h and no override.
AcceptHeader(h) ==
  /\ origin = "none"
  /\ LET s == GetAcceptedContentType([NoRequest EXCEPT !.accept = h]) IN
       /\ fields' = Split(h)
       /\ ctsNil' = s.isnil
       /\ ctsPos' = s.pos
       /\ heap' = [heap EXCEPT ![1] = s.set]
       /\ made' = s.set
  /\ origin' = "header"
  /\ UNCHANGED << regVars, callVars, decVars, th, auxVars, typesRef, nNext, wasReset, out >>

NextNew == \E h \in Headers : AcceptHeader(h)

SpecNew == Init /\ [][NextNew]_vars

\* ------------------------------------------------- ContentTypeSet methods

\* The ContentTypeSet under test.
TheSet == [isnil |-> ctsNil, set |-> heap[1], pos |-> ctsPos]

\* The string lists NewContentTypeSet is called with.
NewInputs ==
  { <<>>, <<"">>, <<"text/", "">>,
    <<ContentTypeJSON>>,
    <<ContentTypeJSON, " text/html;q=0.9">>,
    <<ContentTypeJSON, " application/json", ContentTypeXML>>,
    <<ContentTypeJSON, "TEXT/HTML", ContentTypeXML>> }

\* The type lists SetOfContentTypes is called with.
OfInputs ==
  { <<>>, <<ContentTypeXML>>, <<ContentTypeXML, ContentTypeJSON, ContentTypeXML>> }

\* The types Has is asked for.
HasArgs == {ContentTypeJSON, ContentTypeHTML, ContentTypeNone}

\* The set under test becomes s.
Built(s, how) ==
  /\ ctsNil' = s.isnil
  /\ ctsPos' = s.pos
  /\ heap' = [heap EXCEPT ![1] = s.set]
  /\ made' = s.set
  /\ origin' = how
  /\ UNCHANGED << regVars, callVars, decVars, th, auxVars, fields, typesRef, nNext, wasReset, out >>

New(types) ==
  /\ origin = "none"
  /\ Built(NewContentTypeSet(types), "new")

SetOf(types) ==
  /\ origin = "none"
  /\ Built(SetOfContentTypes(types), "of")

\* var set ContentTypeSet: no entries, pos 0.
ZeroValue ==
  /\ origin = "none"
  /\ Built([isnil |-> FALSE, set |-> <<>>, pos |-> 0], "zero")

\* A method can be called on a set that exists, unless a call panicked.
Callable == origin \notin {"none", "header"} /\ ~out.fault

CtsNext ==
  /\ Callable
  /\ nNext < Len(heap[1]) + MaxPast
  /\ LET nx == SetNext(TheSet) IN
       /\ ctsPos' = nx.set.pos
       /\ out' = [NoOut EXCEPT !.op = "Next", !.ok = nx.ok]
  /\ nNext' = nNext + 1
  /\ UNCHANGED << regVars, callVars, decVars, th, auxVars, fields, ctsNil, heap, typesRef,
                  made, origin, wasReset >>

CtsReset ==
  /\ Callable
  /\ ctsPos' = Reset(TheSet).pos
  /\ nNext' = 0
  /\ wasReset' = TRUE
  /\ out' = [NoOut EXCEPT !.op = "Reset"]
  /\ UNCHANGED << regVars, callVars, decVars, th, auxVars, fields, ctsNil, heap, typesRef,
                  made, origin >>

CtsType ==
  /\ Callable
  /\ out' = IF TypeFaults(TheSet)
            THEN [NoOut EXCEPT !.op = "Type", !.fault = TRUE]
            ELSE [NoOut EXCEPT !.op = "Type", !.type = Type(TheSet)]
  /\ UNCHANGED << regVars, callVars, decVars, th, auxVars, fields, ctsNil, ctsPos, heap,
                  typesRef, made, origin, nNext, wasReset >>

CtsHas(t) ==
  /\ Callable
  /\ out' = [NoOut EXCEPT !.op = "Has", !.arg = t, !.ok = Has(TheSet, t)]
  /\ UNCHANGED << regVars, callVars, decVars, th, auxVars, fields, ctsNil, ctsPos, heap,
                  typesRef, made, origin, nNext, wasReset >>

CtsTypes ==
  /\ Callable
  /\ heap' = Types(heap).heap
  /\ typesRef' = Types(heap).ref
  /\ out' = [NoOut EXCEPT !.op = "Types"]
  /\ UNCHANGED << regVars, callVars, decVars, th, auxVars, fields, ctsNil, ctsPos, made,
                  origin, nNext, wasReset >>

CtsString ==
  /\ Callable
  /\ out' = [NoOut EXCEPT !.op = "String", !.str = String(TheSet)]
  /\ UNCHANGED << regVars, callVars, decVars, th, auxVars, fields, ctsNil, ctsPos, heap,
                  typesRef, made, origin, nNext, wasReset >>

\* The caller overwrites the first element of the slice Types returned.
ModifyTypes ==
  /\ Callable
  /\ typesRef # 0
  /\ heap[typesRef] # <<>>
  /\ heap[typesRef][1] # ContentTypeData
  /\ heap' = [heap EXCEPT ![typesRef][1] = ContentTypeData]
  /\ out' = [NoOut EXCEPT !.op = "Modify"]
  /\ UNCHANGED << regVars, callVars, decVars, th, auxVars, fields, ctsNil, ctsPos, typesRef,
                  made, origin, nNext, wasReset >>

NextSet ==
  \/ \E types \in NewInputs : New(types)
  \/ \E types \in OfInputs : SetOf(types)
  \/ ZeroValue
  \/ CtsNext
  \/ CtsReset
  \/ CtsType
  \/ \E t \in HasArgs : CtsHas(t)
  \/ CtsTypes
  \/ CtsString
  \/ ModifyTypes

SpecSet == Init /\ [][NextSet]_vars

\* ------------------------------------- the mutex along DefaultResponder

\* respondMapperLck.RLock() of the event-stream branch.
DelegateRLock ==
  /\ pc = "delegate"
  /\ ~respondMapperLck.writer
  /\ respondMapperLck' = [respondMapperLck EXCEPT !.readers = @ + 1]
  /\ pc' = "lookup"
  /\ UNCHANGED << extVars, respondMapper, nSet, unset, setLog, reqVars, w, chanVars, to, mode,
                  invoked, timedOut, supported >>

\* A lookup that goes on to the call with the read lock still held.
DelegateLookupHoldLock ==
  /\ pc = "lookup"
  /\ pc' = IF ContentTypeEventStream \in DOMAIN respondMapper THEN "call" ELSE "fatal"
  /\ UNCHANGED << extVars, regVars, reqVars, w, chanVars, to, mode, invoked, timedOut,
                  supported >>

\* if fn, ok := respondMapper[ContentTypeEventStream]; ok { RUnlock() ... }
\* and, for a missing entry, respondMapperLck.Unlock(): the mutex is only
\* read-locked, which the runtime ends with a fatal error.
DelegateLookup ==
  /\ pc = "lookup"
  /\ IF ContentTypeEventStream \in DOMAIN respondMapper
     THEN /\ respondMapperLck' = RUnlocked
          /\ pc' = "call"
     ELSE /\ respondMapperLck' = respondMapperLck
          /\ pc' = "fatal"
  /\ UNCHANGED << extVars, respondMapper, nSet, unset, setLog, reqVars, w, chanVars, to, mode,
                  invoked, timedOut, supported >>

\* err = fn(w, r, v) of the event-stream branch; channelEventStream runs up
\* to its select loop.
DelegateCall ==
  /\ pc = "call"
  /\ LET fn == respondMapper[ContentTypeEventStream] IN
       IF fn = "channelEventStream"
       THEN /\ w' = streamHead(w, r)
            /\ pc' = "stream"
            /\ mode' = "stream"
            /\ invoked' = Append(invoked,
                   Invocation("delegate", ContentTypeEventStream, fn, w, Ret(w, "")))
       ELSE LET res == Call(fn, w, r, v) IN
            /\ w' = withError500(res)
            /\ pc' = IF res.panic THEN "panic" ELSE "done"
            /\ mode' = mode
            /\ invoked' = Append(invoked,
                   Invocation("delegate", ContentTypeEventStream, fn, w, res))
  /\ UNCHANGED << extVars, regVars, reqVars, chanVars, to, timedOut, supported >>

\* The requests and values the mutex is followed on.
LockRequests ==
  { q \in PlainRequests : q.hint = 0 /\ q.override = NoOverride /\ q.accept \in ChanAccepts }

NextLock ==
  \/ \E ct \in SetTypes, fn \in SetFuncs : SetResponder(ct, fn)
  \/ \E req \in LockRequests, val \in {ChanV, Val("obj")} : Begin(req, val)
  \/ DelegateRLock
  \/ DelegateLookup
  \/ DelegateCall
  \/ StreamTimeout
  \/ StreamRecv
  \/ StreamEOF
  \/ BufferTimeout
  \/ BufferRecv
  \/ BufferClosed
  \/ RLock
  \/ WalkSkip
  \/ WalkRespond
  \/ WalkDefault
  \/ Send("plain")
  \/ Close
  \/ Cancel

SpecLock == Init /\ [][NextLock]_vars

\* --------------------------------------------- a producer that never stops

\* The producer, which has neither closed nor run out, offers one more item
\* and the select takes it: the loop is where it was. Of the items beyond
\* MaxItems only the parity of their number is kept.
OfferMore ==
  /\ InCall
  /\ ~closed
  /\ Len(produced) = MaxItems
  /\ nrecv = Len(produced)
  /\ more' = ~more
  /\ UNCHANGED << regVars, decVars, th, setVars, callVars, encVars, dcdVars, rendered, mw >>

LiveRequests == { q \in ChanRequests : q.proto = 1 /\ q.hint = 0 }

NextLive ==
  \/ \E req \in LiveRequests : Begin(req, ChanV)
  \/ Delegate
  \/ StreamTimeout
  \/ StreamRecv
  \/ StreamEOF
  \/ BufferTimeout
  \/ BufferRecv
  \/ BufferClosed
  \/ RLock
  \/ WalkSkip
  \/ WalkRespond
  \/ WalkDefault
  \/ \E k \in ItemKinds : Send(k)
  \/ Close
  \/ Cancel
  \/ OfferMore

\* reflect.Select takes a case that stays ready: it picks among the ready
\* cases at random, so neither ctx.Done() nor the closed channel is passed
\* over for ever; the goroutine itself keeps running between the waits.
Fairness ==
  /\ WF_vars(StreamTimeout)
  /\ WF_vars(BufferTimeout)
  /\ WF_vars(StreamEOF)
  /\ WF_vars(BufferClosed)
  /\ WF_vars(Delegate \/ RLock \/ WalkSkip \/ WalkRespond \/ WalkDefault)

SpecLive == Init /\ [][NextLive]_vars /\ Fairness

\* ------------------------------------ negotiation with any forced type

\* Requests with every combination of Accept header and forced type; the
\* empty type is what SetContentType(ContentTypeNone) leaves in the context.
ForcedTypes ==
  {NoOverride, ContentTypeNone, ContentTypeJSON, ContentTypeEventStream, ContentTypePlainText}

AcceptRequests == [accept : AcceptHeaders, override : ForcedTypes, hint : {0}, proto : {1}]

NextAccept ==
  \/ \E req \in AcceptRequests, val \in {Val("obj"), Val("str")} : Begin(req, val)
  \/ RLock
  \/ WalkSkip
  \/ WalkRespond
  \/ WalkDefault

SpecAccept == Init /\ [][NextAccept]_vars

\* ------------------------------------------------------- renderer on a tree

\* The values a field of a Renderer struct holds: a Renderer that writes its
\* Value (out) and has fields of its own, a nil pointer, a value that does
\* not implement Renderer, a []Renderer.
Struct(value, fs) == [kind |-> "renderer", out |-> value, fields |-> fs]
Leaf(value) == Struct(value, << >>)
NilPtr == [kind |-> "nil", out |-> "", fields |-> << >>]
NoRender == [kind |-> "plain", out |-> "", fields |-> << >>]
List(elems) == [kind |-> "list", out |-> "", fields |-> elems]

FieldValues ==
  { NilPtr, NoRender, Leaf("3"),
    List(<< Leaf("1"), Leaf("2") >>),
    List(<< NilPtr, Leaf("2") >>),
    Struct("2", << NoRender, Leaf("1") >>) }

\* The values renderer is called with: a Renderer struct whose own Render
\* writes nothing or "0".
RenderValues ==
  { Struct(value, fs) : value \in {"", "0"}, fs \in SeqsUpTo(FieldValues, MaxRenderFields) }

\* newTestStruct() and the value of TestBasicRenderer.
newTestStruct ==
  Struct("", << NilPtr, NoRender, List(<< Leaf("1"), Leaf("2") >>), Leaf("3") >>)
basicRenderInterface == Struct("", << Leaf("2") >>)

\* A walk that renders the fields before the value itself.
RECURSIVE rendererWalkBottomUp(_, _)
rendererWalkBottomUp(x, p) ==
  LET RECURSIVE from(_)
      from(i) == IF i > Len(x.fields) THEN << >>
                 ELSE rendererWalkBottomUp(x.fields[i], Append(p, i)) \o from(i + 1)
  IN CASE x.kind = "renderer" -> from(1) \o << [path |-> p, out |-> x.out] >>
       [] x.kind = "list" -> from(1)
       [] OTHER -> << >>

\* renderer(w, r, v): the Render calls it makes, each with the place of the
\* value in v (the field and list indices leading to it) and what it writes.
\* Render on the value first, then the fields in declaration order, a list
\* field in index order; nil and non-Renderer values are passed over.
RECURSIVE rendererWalk(_, _)
rendererWalk(x, p) ==
  LET RECURSIVE from(_)
      from(i) == IF i > Len(x.fields) THEN << >>
                 ELSE rendererWalk(x.fields[i], Append(p, i)) \o from(i + 1)
  IN CASE x.kind = "renderer" -> << [path |-> p, out |-> x.out] >> \o from(1)
       [] x.kind = "list" -> from(1)
       [] OTHER -> << >>

\* What the Render calls write to the sink.
RECURSIVE renderWrites(_)
renderWrites(calls) ==
  IF calls = << >> THEN << >>
  ELSE (IF calls[1].out = "" THEN << >> ELSE << Write("render", calls[1].out, NilV) >>)
       \o renderWrites(Tail(calls))

\* A caller invokes renderer(w, r, val).
CallRenderer(val) ==
  /\ ~rendered.done
  /\ rendered' = [done |-> TRUE, v |-> val, calls |-> rendererWalk(val, << >>)]
  /\ w' = w \o renderWrites(rendererWalk(val, << >>))
  /\ UNCHANGED << regVars, decVars, th, setVars, hdlVars, r, encVars, dcdVars, more, mw >>

NextRender == \E val \in RenderValues : CallRenderer(val)

SpecRender == Init /\ [][NextRender]_vars

\* ---------------------------------------------- encoders called directly

\* The status codes a handler passes to Status.
StatusHints == {201, 404}

EncFuncs == {"JSON", "XML", "PlainText", "HTML"}

EncValues == {NilV, Val("obj"), Val("str"), Val("bad")} \cup {Val(t) : t \in XMLDeclTags}

notEncVars == << regVars, decVars, th, setVars, hdlVars, dcdVars, rendered, more, mw >>

\* Status(r, status): the newest value in the context is the one read later.
Status(status) ==
  /\ ~enc.done
  /\ Len(statusLog) < MaxStatus
  /\ r' = [r EXCEPT !.hint = status]
  /\ statusLog' = Append(statusLog, status)
  /\ UNCHANGED << notEncVars, w, enc >>

\* A handler calls one of the encoders itself.
Encode(fn, val) ==
  /\ ~enc.done
  /\ LET res == Call(fn, w, r, val) IN
       /\ w' = res.w
       /\ enc' = [fn |-> fn, v |-> val, err |-> res.err, done |-> TRUE]
  /\ UNCHANGED << notEncVars, r, statusLog >>

NextEnc ==
  \/ \E status \in StatusHints : Status(status)
  \/ \E fn \in EncFuncs, val \in EncValues : Encode(fn, val)

SpecEnc == Init /\ [][NextEnc]_vars

\* ---------------------------------------------------------------- decoding

\* GetContentType
GetContentType(str) == ParseMediaType(str)

\* GetRequestContentType that lets an empty override win as well.
GetRequestContentTypeAnyOverride(req, dflt) ==
  IF req.override # NoOverride THEN req.override
  ELSE LET p == GetContentType(req.ctype) IN IF p.err THEN dflt ELSE p.mediaType

\* GetRequestContentType: the override in the context if there is one and it
\* is not empty, else the parsed Content-Type header, else dflt.
GetRequestContentType(req, dflt) ==
  IF req.override # NoOverride /\ req.override # "" THEN req.override
  ELSE LET p == GetContentType(req.ctype) IN IF p.err THEN dflt ELSE p.mediaType

\* The Content-Type headers of the requests decoded: missing, unparseable,
\* with space, in capitals, plain.
ContentTypeHeaders ==
  {"", "text/", " application/json", "TEXT/HTML", ContentTypeJSON, ContentTypeXML,
   ContentTypeForm}

\* The overrides SetContentType may have put into the context.
DecOverrides == {NoOverride, ContentTypeNone, ContentTypeJSON, ContentTypeXML, ContentTypePlainText}

\* What the body holds: something the decoder accepts, or not.
Bodies == {"good", "bad"}

DecRequests == [ctype : ContentTypeHeaders, override : DecOverrides, body : Bodies]

\* The content types and functions SetDecoder is called with; "nil" is the
\* nil DecodeFunc.
SetDecTypes == {ContentTypeNone, ContentTypeJSON, ContentTypeXML, ContentTypeForm}
SetDecFuncs == {"DecodeJSON", "nil"}

\* DecodeJSON, DecodeXML: the error of the decoder's Decode.
decoder(fn, body) == IF body = "good" THEN "" ELSE fn \o ": invalid body"

ErrNoDecoder == "render: unable to automatically decode the request content type"

notDcdVars == << regVars, th, setVars, callVars, encVars, rendered, more, mw >>

SetDecoder(contentType, fn) ==
  /\ nSetDec < MaxSets
  /\ decodeMapperLck.readers = 0 /\ ~decodeMapperLck.writer
  /\ decodeMapper' = MapSet(decodeMapper, contentType, fn)
  /\ nSetDec' = nSetDec + 1
  /\ UNCHANGED << notDcdVars, decodeMapperLck, decoded, supportedDec >>

SupportedDecoders ==
  /\ supportedDec = NilSet
  /\ ~decodeMapperLck.writer
  /\ supportedDec' = SupportedRespondersOf(decodeMapper)
  /\ UNCHANGED << notDcdVars, decVars, nSetDec, decoded >>

\* A DefaultDecoder that calls whatever the map holds for the type.
DefaultDecoderNoNilCheck(req) ==
  /\ ~decoded.done
  /\ ~decodeMapperLck.writer
  /\ LET ct == GetRequestContentType(req, ContentTypeNone) IN
       decoded' = [done |-> TRUE, ctype |-> req.ctype, override |-> req.override,
                   body |-> req.body, ct |-> ct, reg |-> decodeMapper,
                   by |-> IF ct \in DOMAIN decodeMapper THEN decodeMapper[ct] ELSE "",
                   err |-> IF ct \in DOMAIN decodeMapper
                           THEN decoder(decodeMapper[ct], req.body) ELSE ErrNoDecoder]
  /\ UNCHANGED << notDcdVars, decVars, nSetDec, supportedDec >>

DefaultDecoder(req) ==
  /\ ~decoded.done
  /\ ~decodeMapperLck.writer
  /\ LET ct == GetRequestContentType(req, ContentTypeNone)
         found == ct \in DOMAIN decodeMapper /\ decodeMapper[ct] # "nil"
     IN decoded' = [done |-> TRUE, ctype |-> req.ctype, override |-> req.override,
                    body |-> req.body, ct |-> ct, reg |-> decodeMapper,
                    by |-> IF found THEN decodeMapper[ct] ELSE "",
                    err |-> IF found THEN decoder(decodeMapper[ct], req.body)
                            ELSE ErrNoDecoder]
  /\ UNCHANGED << notDcdVars, decVars, nSetDec, supportedDec >>

NextDec ==
  \/ \E t \in SetDecTypes, fn \in SetDecFuncs : SetDecoder(t, fn)
  \/ SupportedDecoders
  \/ \E req \in DecRequests : DefaultDecoder(req)

SpecDec == Init /\ [][NextDec]_vars

\* ------------------------------------------------- AllowedContentTypes

\* The types the allowed sets are made of.
AllowTypes == {ContentTypeJSON, ContentTypeXML, ContentTypeForm, ContentTypeHTML}

\* The ContentTypeSet values the middleware is built with: the zero value,
\* or what SetOfContentTypes returned.
AllowedSets ==
  { [isnil |-> FALSE, set |-> << >>, pos |-> 0] }
  \cup { SetOfContentTypes(s) : s \in SeqsUpTo(AllowTypes, MaxAllowed) \ { << >> } }

\* The handler AllowedContentTypes(contentTypes)(next) serves a request with
\* the given Content-Type header: http.Error with 406 when the type is not
\* in the set, and nothing else; next.ServeHTTP is not called anywhere.
AllowedContentTypes(contentTypes, header) ==
  /\ ~mw.done
  /\ LET ct == GetContentType(header).mediaType IN
       w' = IF ~Has(contentTypes, ct)
            THEN httpError(w, "invalid content type: accepted types are:", 406)
            ELSE w
  /\ mw' = [done |-> TRUE, contentTypes |-> contentTypes, header |-> header, next |-> 0]
  /\ UNCHANGED << regVars, decVars, th, setVars, hdlVars, r, encVars, dcdVars, rendered, more >>

NextAllow ==
  \E contentTypes \in AllowedSets, header \in ContentTypeHeaders :
    AllowedContentTypes(contentTypes, header)

SpecAllow == Init /\ [][NextAllow]_vars

\* ------------------------------------------------------------ properties

IsWrite(o) == o.op = "Write"
\* The body chunks written to the sink, in order.
Writes(s) == SelectSeq(s, IsWrite)
IsWriteHeader(o) == o.op = "WriteHeader"
\* The WriteHeader calls made on the sink, in order.
WriteHeaders(s) == SelectSeq(s, IsWriteHeader)

\* C1: in streaming mode, when the producer has sent its items and closed
\* and the context was never cancelled, the sink holds one frame per item in
\* the order sent (a data frame carrying the item for every JSON-encodable
\* item), then exactly one EOF frame; and an EOF frame is always the last
\* call made on the sink.
C1_StreamCompletes ==
  /\ (mode = "stream" /\ pc = "done" /\ ~ctxDone) =>
       LET f == Writes(w) IN
         /\ closed
         /\ Len(f) = Len(produced) + 1
         /\ \A i \in 1..Len(produced) :
              /\ f[i].name = "event"
              /\ f[i].text # "EOF"
              /\ f[i].val.tag = "item"
              /\ f[i].val.items[1].id = produced[i].id
              /\ produced[i].k = "plain" =>
                   f[i] = Write("event", "data", ItemV("item", produced[i]))
         /\ f[Len(f)] = Write("event", "EOF", NilV)
  /\ \A i \in 1..Len(w) :
       (w[i].op = "Write" /\ w[i].text = "EOF") => (i = Len(w) /\ pc = "done")

\* C1's case: two encodable items were sent, the channel was closed and the
\* stream ended without a cancellation.
C1_Witness ==
  /\ mode = "stream" /\ pc = "done" /\ ~ctxDone
  /\ Len(produced) >= 2
  /\ produced[1].k = "plain" /\ produced[2].k = "plain"

\* C2 as stated: once the context is cancelled no further item is received,
\* so a stream whose producer never closes ends with exactly as many item
\* frames as were received before the cancellation, then the timeout frame.
C2_NoItemAfterCancel ==
  (mode = "stream" /\ ctxDone) =>
    /\ nrecv = cancelAt
    /\ (pc = "done" /\ ~closed) =>
         /\ Len(Writes(w)) = cancelAt + 1
         /\ Writes(w)[cancelAt + 1] = Write("event", "error", Val("Server Timeout"))

\* C2, amended: the timeout frame is written only after the context was
\* cancelled, once, and ends the stream: when the select has taken the
\* ctx.Done() case nothing more is received or written.  Between the
\* cancellation and that select an item that is ready may still be received,
\* so the frames before the timeout frame are one per received item, in
\* order, and at least as many as were received before the cancellation.  A
\* stream whose producer never closes ends in no other way.
C2_TimeoutEndsStream ==
  /\ (mode = "stream" /\ timedOut) =>
       LET f == Writes(w) IN
         /\ pc = "done"
         /\ ctxDone
         /\ nrecv >= cancelAt
         /\ Len(f) = nrecv + 1
         /\ \A i \in 1..nrecv :
              /\ f[i].name = "event"
              /\ f[i].text \in {"data", "error"}
              /\ f[i].val.tag = "item"
              /\ f[i].val.items[1].id = produced[i].id
         /\ f[Len(f)] = Write("event", "error", Val("Server Timeout"))
         /\ w[Len(w)] = f[Len(f)]
  /\ (mode = "stream" /\ pc = "done" /\ ~closed) => timedOut
  /\ (mode = "stream" /\ ~ctxDone) => ~timedOut

\* C2's case: the producer never closed, the context was cancelled after one
\* item, and one more item was received before the timeout frame.
C2_Witness ==
  /\ mode = "stream" /\ pc = "done" /\ timedOut /\ ~closed
  /\ cancelAt = 1
  /\ nrecv = 2

\* The status the client sees: the first WriteHeader, or 200 when the body
\* is written without one; 0 while nothing is written.
StatusOf(s) ==
  IF WriteHeaders(s) # <<>> /\ (Writes(s) = <<>> \/ ~IsWrite(s[1]))
  THEN WriteHeaders(s)[1].code
  ELSE IF Writes(s) # <<>> THEN 200 ELSE 0

\* The accepted types of the call, in order.
AcceptedSeq == IF acceptedTypes.isnil THEN <<>> ELSE acceptedTypes.set

\* The call is a DefaultResponder call that has returned or panicked.
Returned == pc \in {"done", "panic"} /\ supported = NilSet

\* What JSON writes for value x: nosniff, the content type, the status hint
\* when there is one, the encoded value.
JSONResponse(x) ==
  << SetHeader("X-Content-Type-Options", "nosniff"),
     SetHeader("Content-Type", "application/json; charset=utf-8") >>
  \o (IF r.hint # 0 THEN << WriteHeader(r.hint) >> ELSE << >>)
  \o << Write("json", "", x) >>

\* The 500 response http.Error writes for msg.
Error500(msg) ==
  << SetHeader("Content-Type", "text/plain; charset=utf-8"),
     SetHeader("X-Content-Type-Options", "nosniff"),
     WriteHeader(500),
     Write("error", msg, NilV) >>

\* C3 as stated: in buffering mode, once the select has taken the ctx.Done()
\* case the call has written the 504 response and nothing else, and has
\* invoked no encoder.
C3_TimeoutAborts ==
  (mode = "buffer" /\ timedOut) =>
    /\ invoked = <<>>
    /\ Len(WriteHeaders(w)) = 1
    /\ WriteHeaders(w)[1].code = 504
    /\ Writes(w) = << Write("error", "Server Timeout", NilV) >>

HasRegistered(t) == t \in DOMAIN respondMapper
\* Whether the entry of t, called with the value, returns something else
\* than the decline sentinel.
NotDeclining(t) ==
  HasRegistered(t) /\ Call(respondMapper[t], <<>>, r, v).err # ErrCanNotEncodeObject

\* C4 as stated: for a value that is not a channel, the call that ends the
\* walk is the one for the earliest accepted type that has a registry entry
\* whose function does not decline the value.
C4_EarliestRegisteredWins ==
  (pc = "done" /\ supported = NilSet /\ arg.tag # "chan") =>
    \A j \in 1..Len(AcceptedSeq) :
      ( /\ NotDeclining(AcceptedSeq[j])
        /\ \A i \in 1..(j - 1) : ~NotDeclining(AcceptedSeq[i]) )
      => /\ invoked[Len(invoked)].via = "walk"
         /\ invoked[Len(invoked)].ct = AcceptedSeq[j]

IsCandidate(t) == t # ContentTypeEventStream /\ HasRegistered(t)
\* The accepted types the walk calls a function for.
Candidates == SelectSeq(AcceptedSeq, IsCandidate)
\* The first candidate whose function does not decline the value; 0 if none.
FirstTaker ==
  LET takers == { j \in 1..Len(Candidates) : NotDeclining(Candidates[j]) }
  IN IF takers = {} THEN 0 ELSE CHOOSE j \in takers : \A i \in takers : j <= i

\* C4, amended: the walk skips text/event-stream and the types without a
\* registry entry, and calls the entries of the other accepted types in
\* order until one does not decline; that call is the last one of the walk,
\* and when it succeeded the response is exactly what it wrote.  Only when
\* every one of them declined is the default entry called.
C4_WalkOrder ==
  (Returned /\ arg.tag # "chan") =>
    LET n == IF FirstTaker = 0 THEN Len(Candidates) ELSE FirstTaker IN
      /\ Len(invoked) = IF FirstTaker = 0 THEN n + 1 ELSE n
      /\ \A j \in 1..n :
           /\ invoked[j].via = "walk"
           /\ invoked[j].ct = Candidates[j]
           /\ invoked[j].fn = respondMapper[Candidates[j]]
      /\ FirstTaker = 0 => invoked[n + 1].via = "default"
      /\ (FirstTaker # 0 /\ invoked[n].err = "" /\ ~invoked[n].panic) =>
           /\ pc = "done"
           /\ w = Call(respondMapper[Candidates[n]], <<>>, r, v).w
           /\ Len(w) = invoked[n].wrote

\* C4's case: two accepted types with an entry, the first of them answered.
C4_Witness ==
  /\ pc = "done" /\ arg.tag = "obj"
  /\ AcceptedSeq = << ContentTypeXML, ContentTypeJSON >>
  /\ Len(invoked) = 1 /\ invoked[1].ct = ContentTypeXML /\ invoked[1].err = ""
  /\ Writes(w) # <<>>

\* C5: a decline by the function of an accepted type writes nothing and is
\* followed by the next call of the walk or by the default call, and a 500
\* response is written only for the error of the last call; with Accept
\* "text/plain, application/json", PlainText and JSON registered for them and
\* a value PlainText declines, the response is the JSON encoding.
C5_DeclineContinues ==
  /\ \A i \in 1..Len(invoked) :
       (invoked[i].via = "walk" /\ invoked[i].err = ErrCanNotEncodeObject) =>
         /\ invoked[i].wrote = 0
         /\ i < Len(invoked) \/ pc = "walk"
  /\ (\E i \in 1..Len(w) : w[i] = WriteHeader(500)) =>
       /\ invoked[Len(invoked)].err # ""
       /\ invoked[Len(invoked)].via = "walk" =>
            invoked[Len(invoked)].err # ErrCanNotEncodeObject
  /\ ( /\ pc = "done" /\ supported = NilSet
       /\ r.override = NoOverride
       /\ r.accept = << ContentTypePlainText, ContentTypeJSON >>
       /\ HasRegistered(ContentTypePlainText)
       /\ respondMapper[ContentTypePlainText] = "PlainText"
       /\ respondMapper[ContentTypeJSON] = "JSON"
       /\ arg.tag = "obj" )
     => w = JSONResponse(arg)

\* C5's case: PlainText declined the value and JSON answered.
C5_Witness ==
  /\ pc = "done" /\ arg.tag = "obj"
  /\ r.accept = << ContentTypePlainText, ContentTypeJSON >>
  /\ Len(invoked) = 2
  /\ invoked[1].fn = "PlainText" /\ invoked[1].err = ErrCanNotEncodeObject
  /\ invoked[2].fn = "JSON" /\ invoked[2].err = ""

\* C6: a call of the negotiation that returns an error other than the
\* decline sentinel is the last call DefaultResponder makes, and the sink
\* then holds exactly one 500 response with that error's message.
C6_ErrorIsTerminal ==
  \A i \in 1..Len(invoked) :
    (invoked[i].err \notin {"", ErrCanNotEncodeObject}) =>
      /\ i = Len(invoked)
      /\ pc = "done"
      /\ w = Error500(invoked[i].err)

\* C6's case: JSON failed for the first accepted type while a second
\* accepted type has an entry.
C6_Witness ==
  /\ pc = "done" /\ arg.tag = "bad"
  /\ AcceptedSeq = << ContentTypeJSON, ContentTypeXML >>
  /\ Len(invoked) = 1 /\ invoked[1].err = "JSON encode"

C8_StreamDelegates ==
  (arg.tag = "chan" /\ InSeq(ContentTypeEventStream, AcceptedSeq)) =>
    /\ mode # "buffer"
    /\ pc \in {"delegate", "stream", "done", "panic"}
    /\ to = <<>>
    /\ v = arg
    /\ Len(invoked) <= 1
    /\ \A i \in 1..Len(invoked) :
         /\ invoked[i].via = "delegate"
         /\ invoked[i].ct = ContentTypeEventStream
    /\ pc \in {"stream", "done", "panic"} => Len(invoked) = 1

\* C8's case: text/event-stream is the second accepted type and the stream
\* has ended after an item.
C8_Witness ==
  /\ arg.tag = "chan" /\ pc = "done"
  /\ AcceptedSeq = << ContentTypeJSON, ContentTypeEventStream >>
  /\ mode = "stream"
  /\ nrecv >= 1

\* C9 as stated: a DefaultResponder call that has returned has called
\* WriteHeader at most once, and the body is either one error response or
\* the output of exactly one successful encoder.
C9_OneResponse ==
  (pc = "done" /\ supported = NilSet) =>
    LET b == Writes(w)
        succeeded == { i \in 1..Len(invoked) : invoked[i].err = "" /\ ~invoked[i].panic }
        errors == { i \in 1..Len(b) : b[i].name = "error" }
    IN /\ Len(WriteHeaders(w)) <= 1
       /\ \/ errors = {} /\ Cardinality(succeeded) = 1
          \/ Cardinality(errors) = 1 /\ Len(b) = 1 /\ succeeded = {}

\* C10 as stated (responders): a type whose latest SetResponder call passed
\* nil is not listed by SupportedResponders, and no nil function is called
\* for it.
C10_NilUnregisters ==
  \A t \in unset :
    /\ supported # NilSet => ~InSeq(t, supported.set)
    /\ \A i \in 1..Len(invoked) : invoked[i].ct = t => invoked[i].fn # "nil"

\* The index of the first field of the header that parses to type t.
FirstField(t) ==
  CHOOSE m \in 1..Len(fields) :
    /\ ~ParseMediaType(fields[m]).err /\ ParseMediaType(fields[m]).mediaType = t
    /\ \A j \in 1..(m - 1) :
         ParseMediaType(fields[j]).err \/ ParseMediaType(fields[j]).mediaType # t

\* C14: the set built from the fields of a header holds the type of every
\* field that parses and nothing else, holds no type twice, and keeps the
\* types in the order of their first field; it is nil exactly when no field
\* parses, and its cursor is before the first entry.  "application/json,
\* text/html;q=0.9, application/json" gives [application/json, text/html].
C14_ParsedOnceInOrder ==
  origin = "header" =>
    LET res == heap[1] IN
      /\ \A i \in 1..Len(res) :
           \E m \in 1..Len(fields) :
             ~ParseMediaType(fields[m]).err /\ ParseMediaType(fields[m]).mediaType = res[i]
      /\ \A m \in 1..Len(fields) :
           ~ParseMediaType(fields[m]).err => InSeq(ParseMediaType(fields[m]).mediaType, res)
      /\ \A i, j \in 1..Len(res) : i < j =>
           /\ res[i] # res[j]
           /\ FirstField(res[i]) < FirstField(res[j])
      /\ ctsNil <=> res = <<>>
      /\ ctsPos = -1
      /\ ~out.fault
      /\ fields = << ContentTypeJSON, " text/html;q=0.9", " application/json" >>
           => res = << ContentTypeJSON, ContentTypeHTML >>

\* C14's case: the header of the example.
C14_Witness ==
  /\ origin = "header"
  /\ fields = << ContentTypeJSON, " text/html;q=0.9", " application/json" >>
  /\ heap[1] = << ContentTypeJSON, ContentTypeHTML >>

\* A set built by NewContentTypeSet or SetOfContentTypes.
Constructed == origin \in {"new", "of"}

\* What the n-th Next call after the pre-iteration state returns on a set
\* with the entries it was built with.
ExpectedNext(n) == n <= Len(made)

\* What Type returns after n Next calls: the first entry before any call,
\* the last one past the end.
ExpectedType(n) ==
  IF n = 0 THEN made[1]
  ELSE IF n > Len(made) THEN made[Len(made)] ELSE made[n]

\* C15: on a set built by a constructor, the k-th Next call since the
\* pre-iteration state returns true exactly when k is at most the number
\* of entries, without a fault, and the cursor is one step further for each
\* Next call made.
C15_NextUntilEnd ==
  Constructed =>
    /\ out.op = "Next" => (out.ok <=> ExpectedNext(nNext))
    /\ ~out.fault \/ out.op # "Next"
    /\ ~ctsNil => ctsPos = nNext - 1
    /\ ctsNil => ctsPos = -1

\* C15's case: two Next calls past the end of three entries, no Reset.
C15_Witness ==
  /\ Constructed /\ ~wasReset
  /\ Len(made) = 3 /\ nNext = 5
  /\ out.op = "Next" /\ ~out.ok

\* C16: on a set with entries, Type returns the entry at the cursor, the
\* first entry before any Next call and the last entry once the cursor is
\* past the end, and never faults, whatever Next and Reset calls came
\* before.
C16_TypeClamps ==
  (Constructed /\ made # <<>> /\ out.op = "Type") =>
    /\ ~out.fault
    /\ out.type = ExpectedType(nNext)

\* C16's case: Type past the end, after a Reset and more Next calls.
C16_Witness ==
  /\ Constructed /\ wasReset
  /\ Len(made) = 3 /\ nNext = 5
  /\ out.op = "Type" /\ out.type = made[3]

\* C17 as stated: on a set without entries Next returns false, Type
\* returns the empty ContentType without a fault, and Has returns false.
C17_EmptySetIsSafe ==
  (origin \in {"new", "of", "zero"} /\ heap[1] = <<>> /\ made = <<>>) =>
    /\ out.op = "Next" => ~out.ok
    /\ out.op = "Type" => (~out.fault /\ out.type = ContentTypeNone)
    /\ out.op = "Has" => ~out.ok

\* C18: after a Reset the cursor is where a constructor leaves it, the
\* entries are the ones the set was built with, and the Next results and
\* Type values that follow are those of a fresh set.
C18_ResetIsFresh ==
  (Constructed /\ wasReset) =>
    /\ heap[1] = made
    /\ out.op = "Reset" => TheSet = [isnil |-> ctsNil, set |-> made, pos |-> -1]
    /\ out.op = "Next" => (out.ok <=> ExpectedNext(nNext))
    /\ (out.op = "Type" /\ made # <<>>) => out.type = ExpectedType(nNext)
    /\ (out.op = "Type" /\ made = <<>>) => out.type = ContentTypeNone

\* C18's case: the second Next after a Reset that followed Next calls.
C18_Witness ==
  /\ Constructed /\ wasReset
  /\ Len(made) = 3 /\ nNext = 2
  /\ out.op = "Next" /\ out.ok

\* C19: the entries of a set stay the ones it was built with, also after
\* the slice returned by Types was modified; the cursor moves with Next and
\* Reset alone; Has answers by the entries, whatever the cursor.
C19_ReadOnlyEntries ==
  (origin \in {"new", "of", "zero"}) =>
    /\ heap[1] = made
    /\ (Constructed /\ ~ctsNil) => ctsPos = nNext - 1
    /\ (origin = "zero" /\ ~wasReset) => ctsPos = nNext
    /\ out.op = "Has" => (out.ok <=> InSeq(out.arg, made))
    /\ out.op = "String" => out.str = String([isnil |-> ctsNil, set |-> made, pos |-> -1])

\* C19's case: the slice returned by Types was modified, with the cursor
\* in the middle of the set.
C19_Witness ==
  /\ Constructed /\ Len(made) = 3 /\ nNext = 2
  /\ out.op = "Modify"
  /\ typesRef # 0 /\ heap[typesRef] # made

\* The headers and the status a stream starts with on protocol version p.
StreamHeaders(p) ==
  << SetHeader("Content-Type", "text/event-stream; charset=utf-8"),
     SetHeader("Cache-Control", "no-cache") >>
  \o (IF p = 1 THEN << SetHeader("Connection", "keep-alive") >> ELSE << >>)
  \o << WriteHeader(200) >>

\* C20: a stream's sink starts with the event-stream headers and status
\* 200, written while no item was received yet; all that follows is frames
\* and flushes, so headers and status are written once and the status hint
\* is not used; Connection: keep-alive is among the headers exactly on
\* protocol major version 1.
C20_StreamHeadOnce ==
  /\ mode = "stream" =>
       LET head == StreamHeaders(r.proto) IN
         /\ Len(w) >= Len(head)
         /\ SubSeq(w, 1, Len(head)) = head
         /\ \A i \in (Len(head) + 1)..Len(w) : w[i].op \in {"Write", "Flush"}
         /\ WriteHeaders(w) = << WriteHeader(200) >>
         /\ (\E i \in 1..Len(w) : w[i] = SetHeader("Connection", "keep-alive"))
              <=> r.proto = 1
  /\ (arg.tag = "chan" /\ mode = "") => nrecv = 0

\* C20's case: a stream on protocol version 2 with a status hint, after an
\* item.
C20_Witness ==
  /\ mode = "stream" /\ pc = "done"
  /\ r.proto = 2 /\ r.hint = 201
  /\ nrecv >= 1

\* The indices of the SetResponder calls made for type t.
CallsFor(t) == { i \in 1..Len(setLog) : setLog[i].ct = t }

\* The function the latest SetResponder call for t passed, or the built-in
\* one when there was no call.
LastFor(t) ==
  IF CallsFor(t) = {} THEN InitRespondMapper[t]
  ELSE setLog[CHOOSE i \in CallsFor(t) : \A j \in CallsFor(t) : j <= i].fn

\* C12: the registry holds one entry for each built-in type and each type
\* SetResponder was called with, whatever the number of calls, and the entry
\* is the function of the latest call; SupportedResponders lists these
\* types, none twice; the negotiation calls the function of the latest
\* call for the type.
C12_Upsert ==
  /\ DOMAIN respondMapper =
       DOMAIN InitRespondMapper \cup { setLog[i].ct : i \in 1..Len(setLog) }
  /\ \A t \in DOMAIN respondMapper : respondMapper[t] = LastFor(t)
  /\ supported # NilSet =>
       /\ { supported.set[i] : i \in 1..Len(supported.set) } = DOMAIN respondMapper
       /\ \A i, j \in 1..Len(supported.set) : i # j => supported.set[i] # supported.set[j]
  /\ \A i \in 1..Len(invoked) :
       invoked[i].fn = LastFor(IF invoked[i].via = "default" THEN ContentTypeDefault
                               ELSE invoked[i].ct)

\* C12's case: the same function registered twice for a type that was not
\* built in, then SupportedResponders.
C12_Witness ==
  /\ Len(setLog) = 2 /\ setLog[1] = setLog[2]
  /\ setLog[1] = [ct |-> ContentTypePlainText, fn |-> "PlainText"]
  /\ supported # NilSet
  /\ Len(supported.set) = 5

\* C13 as stated: before any registration call the responder registry has
\* entries for JSON, XML, plain text, raw binary and the event stream, and
\* the decoder registry has entries for JSON, XML and form data.
C13_BuiltIns ==
  nSet = 0 =>
    /\ { ContentTypeJSON, ContentTypeXML, ContentTypePlainText, ContentTypeData,
         ContentTypeEventStream } \subseteq DOMAIN respondMapper
    /\ { ContentTypeJSON, ContentTypeXML, ContentTypeForm } \subseteq DOMAIN decodeMapper

\* Goroutine t is about to touch the map of its registry.
AtMapAccess(t) == th[t].pc \in {"len", "read", "assign"}

\* C11 as stated: a goroutine touches a registry map (length, iteration,
\* lookup or assignment) only while it holds the mutex of that registry,
\* and while one goroutine is assigning to a map no other goroutine is at an
\* access of the same map; readers may overlap, a writer is alone.
C11_AccessUnderLock ==
  /\ \A t \in Threads : AtMapAccess(t) => th[t].holds # ""
  /\ \A t, u \in Threads :
       (t # u /\ th[t].pc = "assign" /\ RegOf(th[u].op) = RegOf(th[t].op))
         => ~AtMapAccess(u)
  /\ respondMapperLck.writer => respondMapperLck.readers = 0
  /\ decodeMapperLck.writer => decodeMapperLck.readers = 0

\* C21: in a stream the frame at the position of each received item is an
\* error frame exactly when the item's JSON encoding fails and a data frame
\* otherwise, one frame per item in the order received; such a failure
\* neither ends the stream nor turns into an error response: the stream
\* ends only on the producer's close or on the lifetime signal.
C21_ItemErrorInline ==
  mode = "stream" =>
    LET f == Writes(w) IN
      /\ Len(f) >= nrecv
      /\ \A i \in 1..nrecv :
           /\ f[i].name = "event"
           /\ f[i].val.tag = "item"
           /\ f[i].val.items[1].id = produced[i].id
           /\ f[i].text = IF produced[i].k = "bad" THEN "error" ELSE "data"
      /\ Len(f) > nrecv => (Len(f) = nrecv + 1 /\ pc = "done")
      /\ pc = "done" => (timedOut \/ (closed /\ nrecv = Len(produced)))
      /\ pc = "done" => f[Len(f)] \in {TimeoutFrame, EOFFrame}
      /\ WriteHeaders(w) = << WriteHeader(200) >>

\* C21's case: the first item cannot be encoded, the second one can, then
\* the producer closes.
C21_Witness ==
  /\ mode = "stream" /\ pc = "done" /\ closed /\ ~timedOut
  /\ Len(produced) = 2 /\ nrecv = 2
  /\ produced[1].k = "bad" /\ produced[2].k = "plain"
  /\ Writes(w)[1].text = "error" /\ Writes(w)[2].text = "data"

\* What channelIntoSlice keeps of a received item: the item, or the error
\* of its Render call when that failed.
Kept(item) == IF item.k = "rerr" THEN [item EXCEPT !.k = "err"] ELSE item

\* C22: while buffering, the buffer holds one element per item received so
\* far, in the order received, each the item or the error its Render call
\* returned; when the select never took the lifetime signal, the value the
\* negotiation goes on with is that sequence for all items the producer
\* sent before it closed.
C22_BufferKeepsAll ==
  mode = "buffer" =>
    /\ Len(to) = nrecv
    /\ \A i \in 1..nrecv : to[i] = Kept(produced[i])
    /\ (pc # "buffer" /\ ~timedOut) =>
         /\ closed
         /\ nrecv = Len(produced)
         /\ v = [tag |-> "slice", items |-> to]

\* C22's case: a failing Renderer and a plain item, then the producer
\* closes and the call completes.
C22_Witness ==
  /\ mode = "buffer" /\ pc = "done" /\ ~timedOut
  /\ Len(produced) = 2
  /\ produced[1].k = "rerr" /\ produced[2].k = "plain"
  /\ v.tag = "slice" /\ Len(v.items) = 2 /\ v.items[1].k = "err"


\* The kind of body chunk each encoder writes.
BodyKind(fn) ==
  CASE fn = "JSON" -> "json" [] fn = "XML" -> "xml"
    [] fn = "PlainText" -> "plain" [] OTHER -> "html"

\* The positions in the sink of the calls that satisfy P.
SinkAt(P(_)) == {i \in 1..Len(w) : P(w[i])}
IsContentType(o) == o.op = "Header" /\ o.name = "Content-Type"

\* C23: when JSON, XML, PlainText or HTML succeeds on a request with a status
\* hint, WriteHeader is called exactly once, with the hint set most recently,
\* after Content-Type is set and before any body byte; with no hint
\* WriteHeader is not called at all; the last chunk is the encoded value.
C23_StatusHintOnce ==
  (enc.done /\ enc.err = "") =>
    LET ct == SinkAt(IsContentType)
        wh == SinkAt(IsWriteHeader)
        body == SinkAt(IsWrite)
    IN /\ Cardinality(ct) = 1
       /\ body # {}
       /\ w[Len(w)] = Write(BodyKind(enc.fn), "", enc.v)
       /\ IF statusLog # <<>>
          THEN /\ Cardinality(wh) = 1
               /\ \A i \in wh :
                    /\ w[i].code = statusLog[Len(statusLog)]
                    /\ \A c \in ct : c < i
                    /\ \A b \in body : i < b
          ELSE wh = {}

C23_Witness ==
  /\ enc.done /\ enc.err = "" /\ enc.fn = "HTML"
  /\ Len(statusLog) = 2 /\ statusLog[1] # statusLog[2]
  /\ WriteHeaders(w) = << WriteHeader(statusLog[2]) >>


IsXMLHeader(o) == o = Write("xmlheader", "", NilV)

\* Whether the five bytes '<?xml' lie within the first 100 bytes of body b.
DeclInFirst100(b) == \E d \in b.at : \A k \in d..(d + 4) : k < 100 /\ k < b.len

\* C26: on success XML writes the generic declaration in front of the body
\* exactly when '<?xml' does not occur within the first 100 bytes of the
\* marshalled body, and nothing in front otherwise; a body that has no
\* '<?xml' or starts with it leaves with exactly one declaration.
C26_OneXMLDeclaration ==
  (enc.done /\ enc.fn = "XML" /\ enc.err = "") =>
    LET b == xmlMarshal(enc.v)
        prepended == Cardinality(SinkAt(IsXMLHeader))
    IN /\ prepended = (IF DeclInFirst100(b) THEN 0 ELSE 1)
       /\ \A i \in SinkAt(IsXMLHeader) : i = Len(w) - 1
       /\ w[Len(w)] = Write("xml", "", enc.v)
       /\ enc.v.tag \in {"nil", "obj", "str", "xmlDecl", "xmlEarly"} =>
            prepended + Cardinality(b.at) = 1
       /\ enc.v.tag = "xmlDecl" => prepended = 0
       /\ enc.v.tag = "xmlEdge" => prepended = 1

C26_Witness ==
  /\ enc.done /\ enc.fn = "XML" /\ enc.err = "" /\ enc.v.tag = "xmlDecl"
  /\ SinkAt(IsXMLHeader) = {}
  /\ Writes(w) = << Write("xml", "", enc.v) >>


\* The decoder registered for type t when DefaultDecoder was called, "" if
\* there was none or it was nil.
DecoderFor(t) ==
  IF t \in DOMAIN decoded.reg /\ decoded.reg[t] # "nil" THEN decoded.reg[t] ELSE ""

\* The type the Content-Type header names, "" if it is missing or unparseable.
HeaderType(h) ==
  CASE h \in {"", "text/"} -> ContentTypeNone
    [] h = " application/json" -> ContentTypeJSON
    [] h = "TEXT/HTML" -> ContentTypeHTML
    [] OTHER -> h

\* C24: DefaultDecoder picks the decoder by the request's content type: the
\* override in the context when one is set (the empty type counts as not
\* set), else the type of the Content-Type header. When the registry has no
\* decoder for that type (no entry, or the entry was set to nil) it returns
\* the 'unable to automatically decode' error and calls no decoder;
\* otherwise it calls exactly that decoder and returns its error.
C24_DecoderByContentType ==
  decoded.done =>
    LET ct == IF decoded.override \notin {NoOverride, ContentTypeNone}
              THEN decoded.override ELSE HeaderType(decoded.ctype)
    IN /\ decoded.ct = ct
       /\ decoded.by = DecoderFor(ct)
       /\ DecoderFor(ct) = "" => decoded.err = ErrNoDecoder
       /\ DecoderFor(ct) # "" =>
            decoded.err = (IF decoded.body = "good" THEN "" ELSE decoded.by \o ": invalid body")

\* An override beats a header that names a registered type, and the type it
\* names has had its decoder unset.
C24_Witness ==
  /\ decoded.done
  /\ decoded.override = ContentTypeXML /\ decoded.ctype = ContentTypeJSON
  /\ decoded.reg[ContentTypeXML] = "nil"
  /\ decoded.by = "" /\ decoded.err = ErrNoDecoder


\* A DefaultResponder call has begun.
Called == pc # "idle" /\ supported = NilSet

\* C25 as stated: a forced type in the context makes the accepted-type set
\* that type alone whatever the Accept header says, and with neither a forced
\* type nor an Accept header the set is the single default type.
C25_DefaultTypeSet ==
  Called =>
    /\ r.override \notin {NoOverride, ContentTypeNone} => AcceptedSeq = << r.override >>
    /\ (r.override = NoOverride /\ r.accept = <<>>) =>
         (~acceptedTypes.isnil /\ acceptedTypes.set = << ContentTypeDefault >>)

\* C25 amended: a forced type in the context makes the accepted-type set that
\* type alone (no type at all when it is the empty type) whatever the Accept
\* header says; with neither a forced type nor an Accept header the set is
\* nil, the walk calls nothing and the entry of the default type answers.
C25_OverrideBeatsHeader ==
  Called =>
    /\ r.override \notin {NoOverride, ContentTypeNone} => AcceptedSeq = << r.override >>
    /\ r.override = ContentTypeNone => acceptedTypes.isnil
    /\ (r.override = NoOverride /\ r.accept = <<>>) =>
         /\ acceptedTypes.isnil
         /\ pc \in {"done", "panic"} =>
              /\ Len(invoked) = 1
              /\ invoked[1].via = "default" /\ invoked[1].ct = ContentTypeDefault
    /\ (r.override = NoOverride /\ r.accept # <<>>) =>
         /\ ~acceptedTypes.isnil
         /\ \A i \in 1..Len(r.accept) : InSeq(r.accept[i], acceptedTypes.set)
         /\ \A i \in 1..Len(acceptedTypes.set) : InSeq(acceptedTypes.set[i], r.accept)

C25_Witness ==
  /\ pc = "done"
  /\ r.override = ContentTypeJSON
  /\ r.accept = << ContentTypeXML, ContentTypePlainText >>
  /\ AcceptedSeq = << ContentTypeJSON >>
  /\ Len(invoked) = 1 /\ invoked[1].via = "walk" /\ invoked[1].ct = ContentTypeJSON


\* The types that have a responder: set, and not unset by a nil since.
Registered(m) == {t \in DOMAIN m : m[t] # "nil"}

\* Set s holds exactly the types of T, in lexicographic order, each once,
\* with the cursor before the first entry.
SnapshotOf(s, T) ==
  /\ ~s.isnil
  /\ {s.set[i] : i \in 1..Len(s.set)} = T
  /\ \A i, j \in 1..Len(s.set) : i < j => LexRank(s.set[i]) < LexRank(s.set[j])
  /\ s.pos = -1

\* C27 as stated (responders): the set SupportedResponders returns holds
\* exactly the types registered when it is called, sorted, without duplicates
\* and with the cursor in the pre-iteration state, and no later registration
\* changes a set already returned.
C27_SnapshotOfRegistered ==
  [][ /\ (supported = NilSet /\ supported' # NilSet) =>
           SnapshotOf(supported', Registered(respondMapper))
      /\ supported # NilSet => supported' = supported ]_vars


\* The value at place p of x: field (or list index) p[1], then p[2] of that.
RECURSIVE At(_, _)
At(x, p) == IF p = << >> THEN x ELSE At(x.fields[p[1]], Tail(p))

\* Place p exists in x and every value on the way to it is a Renderer or a list.
RECURSIVE Reachable(_, _)
Reachable(x, p) ==
  \/ p = << >>
  \/ /\ x.kind \in {"renderer", "list"}
     /\ p[1] \in 1..Len(x.fields)
     /\ Reachable(x.fields[p[1]], Tail(p))

\* The places of the values of x that implement Renderer and are not nil.
RendererPlaces(x) ==
  { p \in SeqsUpTo(1..MaxRenderFields, MaxDepth) :
      Reachable(x, p) /\ At(x, p).kind = "renderer" }

\* Place p comes before place q: it is on the way to q, or branches off at an
\* earlier field or index.
Before(p, q) ==
  \/ Len(p) < Len(q) /\ \A i \in 1..Len(p) : p[i] = q[i]
  \/ \E i \in 1..Len(p) :
       /\ i <= Len(q) /\ p[i] < q[i]
       /\ \A j \in 1..(i - 1) : p[j] = q[j]

\* C28: renderer calls Render on v first and then on every non-nil value
\* reachable through v's fields that implements Renderer, exactly once each,
\* fields in declaration order and list elements in index order; nil pointers
\* and values that are not Renderers are passed over. The sink receives the
\* output in that order: "123" for newTestStruct(), "2" for the basic value.
C28_RenderTopDownInOrder ==
  rendered.done =>
    LET c == rendered.calls
        texts == [i \in 1..Len(w) |-> w[i].text]
    IN /\ c[1].path = << >>
       /\ {c[i].path : i \in 1..Len(c)} = RendererPlaces(rendered.v)
       /\ \A i, j \in 1..Len(c) : i < j => Before(c[i].path, c[j].path)
       /\ \A i \in 1..Len(c) : c[i].out = At(rendered.v, c[i].path).out
       /\ w = renderWrites(c)
       /\ rendered.v = newTestStruct => texts = << "1", "2", "3" >>
       /\ rendered.v = basicRenderInterface => texts = << "2" >>

C28_Witness ==
  /\ rendered.done /\ rendered.v = newTestStruct
  /\ Len(rendered.calls) = 4
  /\ Writes(w) = << Write("render", "1", NilV), Write("render", "2", NilV),
                    Write("render", "3", NilV) >>


\* C29: a DefaultResponder call with a channel returns only once the producer
\* has closed the channel or the context is done, and once either has
\* happened the call returns eventually, in streaming and in buffering mode,
\* however many items the producer goes on offering.
C29_ReturnsOnCloseOrSignal ==
  /\ [](pc \in {"done", "panic"} => (closed \/ ctxDone))
  /\ ((InCall /\ (closed \/ ctxDone)) ~> (pc \in {"done", "panic"}))

\* The stream returned on the signal after taking items, recorded and
\* further ones, that were offered after it.
C29_Witness ==
  /\ pc = "done" /\ mode = "stream" /\ timedOut /\ ~closed
  /\ cancelAt = 0 /\ nrecv > cancelAt /\ more


\* The accepted set of the call lists the event-stream type.
AcceptsEventStream == InSeq(ContentTypeEventStream, AcceptedSeq)

\* C30: for a value that is not a channel no responder is called for the
\* event-stream type, channelEventStream is never called, and a call whose
\* accepted set lists text/event-stream (by the Accept header or by a forced
\* type) is answered through a later accepted type or the default entry; a
\* panic comes from a nil entry alone.
C30_NoEventStreamForNonChannel ==
  (Called /\ arg.tag # "chan") =>
    /\ \A i \in 1..Len(invoked) :
         /\ invoked[i].ct # ContentTypeEventStream
         /\ invoked[i].fn # "channelEventStream"
    /\ mode = ""
    /\ pc = "panic" => invoked[Len(invoked)].fn = "nil"
    /\ (pc = "done" /\ AcceptsEventStream) =>
         /\ invoked # << >>
         /\ LET last == invoked[Len(invoked)] IN
              \/ last.via = "default" /\ last.ct = ContentTypeDefault
              \/ last.via = "walk" /\ InSeq(last.ct, AcceptedSeq)

\* Accept: text/event-stream, application/json with a struct: JSON answers.
C30_Witness ==
  /\ pc = "done" /\ arg = Val("obj")
  /\ AcceptedSeq = << ContentTypeEventStream, ContentTypeJSON >>
  /\ Len(invoked) = 1 /\ invoked[1].via = "walk" /\ invoked[1].ct = ContentTypeJSON
  /\ w = JSONResponse(arg)


\* C31: while a DefaultResponder call waits on the producer or on the
\* context, in the stream and in the buffering loop, it holds no lock of the
\* registry: the mutex is free and a SetResponder call can go through.
C31_NoLockWhileWaiting ==
  InCall =>
    /\ respondMapperLck.readers = 0 /\ ~respondMapperLck.writer
    /\ nSet < MaxSets => ENABLED SetResponder(ContentTypePlainText, "PlainText")

\* A stream that is open and not cancelled, and a SetResponder call that
\* went through after the stream began (before, it would have replaced the
\* responder the stream runs in).
C31_Witness ==
  /\ pc = "stream" /\ mode = "stream" /\ ~closed /\ ~ctxDone
  /\ nSet = 1 /\ respondMapper[ContentTypeEventStream] = "nil"


\* C32: along DefaultResponder, whatever SetResponder has made of the
\* registry, the call holds the read lock exactly between an RLock and the
\* RUnlock that follows it (never twice, never a release without a lock), it
\* never reaches the write-unlock of the mutex it has only read-locked, and
\* it holds nothing when it has returned or panicked.
C32_LocksBalanced ==
  /\ respondMapperLck.readers \in {0, 1}
  /\ ~respondMapperLck.writer
  /\ respondMapperLck.readers = 1 <=> pc \in {"lookup", "walk"}
  /\ pc \in {"done", "panic"} => respondMapperLck.readers = 0
  /\ pc # "fatal"

\* The walk called a nil entry: the panic unwound through the deferred
\* RUnlock.
C32_Witness ==
  /\ pc = "panic" /\ respondMapperLck.readers = 0
  /\ invoked # << >>
  /\ invoked[Len(invoked)].via \in {"walk", "default"}
  /\ invoked[Len(invoked)].fn = "nil"


\* C33 as stated: the handler passes a request whose Content-Type is in the
\* allowed set to the next handler exactly once and writes nothing itself,
\* and answers any other request with 406 without calling the next handler.
C33_AllowedPassesOn ==
  mw.done =>
    IF InSeq(HeaderType(mw.header), mw.contentTypes.set)
    THEN mw.next = 1 /\ w = << >>
    ELSE mw.next = 0 /\ WriteHeaders(w) = << WriteHeader(406) >>


\* The refusing half of C33: a request whose Content-Type is not in the
\* allowed set gets exactly one 406 header and the next handler is not run.
AllowRefuses406 ==
  (mw.done /\ ~InSeq(HeaderType(mw.header), mw.contentTypes.set)) =>
    mw.next = 0 /\ WriteHeaders(w) = << WriteHeader(406) >>

====
